---- MODULE Spec2Model ----
(***************************************************************************)
(* casc-rs: the storage facade (casc_storage.rs), the frame-cache read     *)
(* stream (casc_file.rs) and the on-disk layouts they consume.             *)
(*                                                                         *)
(* Integers.  TLC's integers are 32 bits wide, the program's positions are *)
(* u64.  A u64/i64 value is held here by its two's-complement i64 reading: *)
(* a non-negative number n stands for the u64 n, a negative number -k for  *)
(* the u64 2^64 - k.  Wrapping addition of such values is ordinary         *)
(* addition as long as no magnitude reaches 2^31, which the guards ensure; *)
(* unsigned comparison is U64Lt below.                                     *)
(***************************************************************************)
EXTENDS Integers, Sequences, FiniteSets, TLC

VARIABLES
    entries,          \* CascStorage.entries: base64 key -> IDX entry
    file_entries,     \* TVFSRootHandler.file_entries: name -> spans
    files,            \* CascStorage.files: name -> [file_size, is_local]
    data_file_paths,  \* CascStorage.data_file_paths
    streams,          \* the CascFile of every caller slot (or NoStream)
    cursors,          \* the cursor of every open file description
    hist,             \* per slot: the last call and what it returned
    run,              \* per slot: bytes delivered by the seek-free run from 0
    rd,               \* per slot: the read call in progress (interleaved reads)
    boot              \* the step of CascStorage::open under study: input and outcome

storageVars == <<entries, file_entries, files, data_file_paths>>
vars == <<entries, file_entries, files, data_file_paths, streams, cursors, hist, run, rd, boot>>

(***************************************************************************)
(* Bounds of the model.                                                    *)
(***************************************************************************)
MaxBuf == 3        \* longest buffer handed to read
MaxOff == 2        \* largest magnitude of a Current/End seek offset
MaxStart == 6      \* largest Start seek offset
PosCap == 7        \* seeks are explored while |position| <= PosCap

(***************************************************************************)
(* Program constants.                                                      *)
(***************************************************************************)
SpanHeaderSize == 30        \* size_of::<CascSpanHeader>(), repr(C, packed)
BlockTableHeaderSize == 12  \* size_of::<BlockTableHeader>()
BlockTableEntrySize == 24   \* size_of::<BlockTableEntry>()
BLTE_SIGNATURE == 1163152450  \* 0x45544C42
TAG_RAW == 78               \* 0x4E
TAG_ZLIB == 90              \* 0x5A
TAG_ENCRYPTED == 69         \* 0x45

(***************************************************************************)
(* Unsigned 64-bit arithmetic on the signed representation.                *)
(***************************************************************************)
\* A mutant of U64Lt: the comparison of the signed readings.
I64Lt(a, b) == a < b

U64Lt(a, b) ==
    IF (a >= 0) = (b >= 0) THEN a < b ELSE a >= 0

U64Le(a, b) == a = b \/ U64Lt(a, b)

\* u64::saturating_sub
SaturatingSub(a, b) == IF U64Le(a, b) THEN 0 ELSE a - b

UMin(a, b) == IF U64Lt(a, b) THEN a ELSE b

(***************************************************************************)
(* Byte helpers.                                                           *)
(***************************************************************************)
Zeros(n) == [i \in 1..n |-> 0]

\* the bytes b[from+1 .. from+n] (from is a 0-based offset)
Slice(b, from, n) == SubSeq(b, from + 1, from + n)

\* i32::from_be(x) as u32 of the four bytes at 0-based offset o
BE32(b, o) == ((b[o + 1] * 256 + b[o + 2]) * 256 + b[o + 3]) * 256 + b[o + 4]

\* a little-endian u32 of the four bytes at 0-based offset o
LE32(b, o) == ((b[o + 4] * 256 + b[o + 3]) * 256 + b[o + 2]) * 256 + b[o + 1]

\* frame_count[2] | frame_count[1] << 8 | frame_count[0] << 16
FrameCount(b, o) == b[o + 3] + b[o + 2] * 256 + b[o + 1] * 65536

RECURSIVE SumSeq(_)
SumSeq(s) == IF Len(s) = 0 THEN 0 ELSE Head(s) + SumSeq(Tail(s))

RECURSIVE Flatten(_)
Flatten(ss) == IF Len(ss) = 0 THEN <<>> ELSE Head(ss) \o Flatten(Tail(ss))

(***************************************************************************)
(* BASE64_STANDARD.encode: characters are held by their index in the       *)
(* standard alphabet (0..63), the padding character '=' by 64.             *)
(***************************************************************************)
B64Pad == 64

RECURSIVE Base64(_)
Base64(bs) ==
    IF Len(bs) = 0 THEN <<>>
    ELSE IF Len(bs) = 1 THEN
        << bs[1] \div 4, (bs[1] % 4) * 16, B64Pad, B64Pad >>
    ELSE IF Len(bs) = 2 THEN
        << bs[1] \div 4, (bs[1] % 4) * 16 + (bs[2] \div 16), (bs[2] % 16) * 4, B64Pad >>
    ELSE
        << bs[1] \div 4, (bs[1] % 4) * 16 + (bs[2] \div 16),
           (bs[2] % 16) * 4 + (bs[3] \div 64), bs[3] % 64 >>
        \o Base64(SubSeq(bs, 4, Len(bs)))

(***************************************************************************)
(* The decompressor behind ZlibDecoder::read_to_end.  The codec itself is  *)
(* the flate2 crate's; what the stream relies on is that the output is a   *)
(* function of the payload alone and that its length is not tied to the    *)
(* frame's content_size.  It is modelled by a run-length code: the payload *)
(* is a sequence of (count, byte) pairs; a payload of odd length is a      *)
(* corrupt stream.                                                         *)
(***************************************************************************)
RECURSIVE Inflate(_)
Inflate(p) ==
    IF Len(p) = 0 THEN [ok |-> TRUE, data |-> <<>>]
    ELSE IF Len(p) = 1 THEN [ok |-> FALSE, data |-> <<>>]
    ELSE LET rest == Inflate(SubSeq(p, 3, Len(p)))
         IN  [ok |-> rest.ok, data |-> [i \in 1..p[1] |-> p[2]] \o rest.data]

(***************************************************************************)
(* The storages explored.  A storage is described by the blobs laid out in *)
(* its data.N files, the IDX records that point at them and the TVFS file  *)
(* entries; the bytes of each data.N file follow from the description.     *)
(***************************************************************************)
RawFrame(bytes) == [tag |-> TAG_RAW, es |-> Len(bytes) + 1, cs |-> Len(bytes), data |-> bytes]

ZFrame(cs, pairs) == [tag |-> TAG_ZLIB, es |-> Len(pairs) + 1, cs |-> cs, data |-> pairs]

TaggedFrame(tag, bytes) == [tag |-> tag, es |-> Len(bytes) + 1, cs |-> Len(bytes), data |-> bytes]

BlteMagic == <<66, 76, 84, 69>>

U32BEBytes(n) == <<0, 0, n \div 256, n % 256>>

BlobBytes(blob) ==
    Zeros(SpanHeaderSize)
    \o blob.sig \o <<0, 0, 0, 0>> \o <<15>> \o <<0, 0, Len(blob.frames)>>
    \o Flatten([k \in 1..Len(blob.frames) |->
                  U32BEBytes(blob.frames[k].es) \o U32BEBytes(blob.frames[k].cs) \o Zeros(16)])
    \o Flatten([k \in 1..Len(blob.frames) |-> <<blob.frames[k].tag>> \o blob.frames[k].data])

Key9(i) == <<i, 17, 34, 51, 68, 85, 102, 119, 136>>

Key16(i) == Key9(i) \o <<1, 2, 3, 4, 5, 6, 7>>

StorageA ==
    [ id |-> 1,
      narchives |-> 1,
      blobs |-> <<
        [archive |-> 0, sig |-> BlteMagic, frames |-> << RawFrame(<<65, 66>>), RawFrame(<<67>>) >>],
        [archive |-> 0, sig |-> BlteMagic, frames |-> << RawFrame(<<>>), ZFrame(2, <<2, 68>>) >>],
        [archive |-> 0, sig |-> BlteMagic, frames |-> << >>],
        [archive |-> 0, sig |-> BlteMagic,
         frames |-> << RawFrame(<<70>>), TaggedFrame(TAG_ENCRYPTED, <<71>>), RawFrame(<<72>>) >>],
        [archive |-> 0, sig |-> <<66, 76, 84, 70>>, frames |-> << RawFrame(<<73>>) >>],
        [archive |-> 0, sig |-> BlteMagic, frames |-> << ZFrame(2, <<1, 74>>) >>] >>,
      idx |-> { [key |-> Key9(1), blob |-> 1], [key |-> Key9(2), blob |-> 2],
                [key |-> Key9(3), blob |-> 3], [key |-> Key9(4), blob |-> 4],
                [key |-> Key9(5), blob |-> 5], [key |-> Key9(6), blob |-> 6] },
      tvfs |-> [ a |-> <<Key9(1), Key9(2)>>,
                 b |-> <<Key9(3), Key9(1)>>,
                 e |-> <<Key9(4)>>,
                 m |-> <<Key9(2), Key9(9)>>,
                 s |-> <<Key9(5)>>,
                 z |-> <<Key9(6)>> ] ]

StorageB ==
    [ id |-> 2,
      narchives |-> 2,
      blobs |-> <<
        [archive |-> 1, sig |-> BlteMagic,
         frames |-> << RawFrame(<<75>>), TaggedFrame(88, <<76, 77>>) >>],
        [archive |-> 0, sig |-> BlteMagic, frames |-> << ZFrame(1, <<1, 78>>), RawFrame(<<79, 80>>) >>],
        [archive |-> 1, sig |-> BlteMagic, frames |-> << ZFrame(1, <<2, 81>>), RawFrame(<<82>>) >>] >>,
      idx |-> { [key |-> Key9(1), blob |-> 1], [key |-> Key9(2), blob |-> 2],
                [key |-> Key9(3), blob |-> 3] },
      tvfs |-> [ p |-> <<Key9(2)>>,
                 u |-> <<Key9(2), Key9(1)>>,
                 w |-> <<Key16(2)>>,
                 z |-> <<Key9(3), Key9(2)>> ] ]

\* one data file, data.0; the IDX record of the second blob names archive 1
StorageC ==
    [ id |-> 3,
      narchives |-> 1,
      blobs |-> <<
        [archive |-> 0, sig |-> BlteMagic, frames |-> << RawFrame(<<83>>) >>],
        [archive |-> 1, sig |-> BlteMagic, frames |-> << RawFrame(<<84>>) >>] >>,
      idx |-> { [key |-> Key9(1), blob |-> 1], [key |-> Key9(2), blob |-> 2] },
      tvfs |-> [ q |-> <<Key9(1), Key9(2)>>,
                 r |-> <<Key9(9), Key9(1)>> ] ]

Storages == {StorageA, StorageB, StorageC}

StorageById(id) == CHOOSE d \in Storages : d.id = id

\* the name of a data.N file: the storage it belongs to and N
PathOf(d, a) == <<d.id, a>>

BlobsIn(d, a) == SelectSeq(d.blobs, LAMBDA b : b.archive = a)

\* the bytes of every data.N file
FsContent ==
    [p \in UNION {{PathOf(d, a) : a \in 0..(d.narchives - 1)} : d \in Storages} |->
        LET d == StorageById(p[1])
            bl == BlobsIn(d, p[2])
        IN  Flatten([k \in 1..Len(bl) |-> BlobBytes(bl[k])])]

\* the offset of blob i of d in its data file
BlobOffset(d, i) ==
    SumSeq([k \in 1..(i - 1) |->
              IF d.blobs[k].archive = d.blobs[i].archive THEN Len(BlobBytes(d.blobs[k])) ELSE 0])

FileNames == UNION {DOMAIN d.tvfs : d \in Storages}

(***************************************************************************)
(* The storage as CascStorage::open leaves it.                             *)
(***************************************************************************)
\* CascKeyMappingTable::new: entries.insert(base64(entry.encoding_key), entry)
EntriesOf(d) ==
    [k \in {Base64(x.key) : x \in d.idx} |->
        LET x == CHOOSE x \in d.idx : Base64(x.key) = k
        IN  [encoding_key |-> x.key,
             offset |-> BlobOffset(d, x.blob),
             size |-> Len(BlobBytes(d.blobs[x.blob])),
             archive_index |-> d.blobs[x.blob].archive]]

\* SpanInfo::new_with_encoding_key
SpanInfoNew(e_key) == [encoding_key |-> e_key, base64_encoding_key |-> Base64(e_key)]

\* TVFSRootHandler::add_entry: one Entry per leaf, keyed by its name
FileEntriesOf(d) ==
    [n \in DOMAIN d.tvfs |->
        [name |-> n, spans |-> [i \in 1..Len(d.tvfs[n]) |-> SpanInfoNew(d.tvfs[n][i])]]]

\* load_data_files: one path per data.N, indexed by N
DataFilePathsOf(d) == [i \in 1..d.narchives |-> PathOf(d, i - 1)]

\* the loop over one entry's spans that keeps the sum of the spans before the
\* missing one
RECURSIVE FileInfoLoopKeepSum(_, _, _)
FileInfoLoopKeepSum(spans, ents, info) ==
    IF Len(spans) = 0 THEN info
    ELSE IF Head(spans).base64_encoding_key \in DOMAIN ents
         THEN FileInfoLoopKeepSum(Tail(spans), ents,
                  [info EXCEPT !.file_size = @ + ents[Head(spans).base64_encoding_key].size])
         ELSE [info EXCEPT !.is_local = FALSE]

\* load_files, the loop over one entry's spans
RECURSIVE FileInfoLoop(_, _, _)
FileInfoLoop(spans, ents, info) ==
    IF Len(spans) = 0 THEN info
    ELSE IF Head(spans).base64_encoding_key \in DOMAIN ents
         THEN FileInfoLoop(Tail(spans), ents,
                  [info EXCEPT !.file_size = @ + ents[Head(spans).base64_encoding_key].size])
         ELSE [info EXCEPT !.is_local = FALSE, !.file_size = 0]

\* load_files
LoadFiles(fes, ents) ==
    [n \in DOMAIN fes |->
        FileInfoLoop(fes[n].spans, ents, [file_name |-> n, file_size |-> 0, is_local |-> TRUE])]

(***************************************************************************)
(* CascStorage::open_file.                                                 *)
(***************************************************************************)
Slots == {1, 2}

NoStream ==
    [live |-> FALSE, name |-> "", spans |-> <<>>, internal_size |-> 0,
     internal_position |-> 0, is_open |-> FALSE, has_cache |-> FALSE, cache |-> <<>>,
     cache_start_position |-> 0, cache_end_position |-> 0]

\* CascFile::new
CascFileNew(name, spans, size) ==
    [live |-> TRUE, name |-> name, spans |-> spans, internal_size |-> size,
     internal_position |-> 0, is_open |-> TRUE, has_cache |-> FALSE, cache |-> <<>>,
     cache_start_position |-> 0, cache_end_position |-> 0]

\* A mutant of SpanReader: every stream reads through the storage's own
\* handle of the data file instead of opening one of its own.
SpanReaderShared(slot, i, archive_index) == <<0, archive_index + 1>>

\* std::fs::File::open in open_file: a file description of the stream's own,
\* the i-th one of the stream in caller slot `slot`
SpanReader(slot, i, archive_index) == <<slot, i>>

Handles == ({0} \cup Slots) \X {1, 2}

ClosedCursor == [path |-> <<0, 0>>, pos |-> 0]

\* A mutant of FrameLoop: a frame's place in the archive advances by the
\* decoded size of the frames before it.
RECURSIVE FrameLoopContentStride(_, _, _, _)
FrameLoopContentStride(tbl, archive_offset, virtual_offset, frames) ==
    IF Len(tbl) = 0 THEN [frames |-> frames, virtual_offset |-> virtual_offset]
    ELSE LET e == Head(tbl)
             frame == [archive_offset |-> archive_offset,
                       encoded_size |-> e.encoded_size,
                       content_size |-> e.content_size,
                       virtual_start_offset |-> virtual_offset,
                       virtual_end_offset |-> virtual_offset + e.content_size]
         IN  FrameLoopContentStride(Tail(tbl), archive_offset + e.content_size,
                                    virtual_offset + e.content_size, Append(frames, frame))

\* the loop over block_table_frames
RECURSIVE FrameLoop(_, _, _, _)
FrameLoop(tbl, archive_offset, virtual_offset, frames) ==
    IF Len(tbl) = 0 THEN [frames |-> frames, virtual_offset |-> virtual_offset]
    ELSE LET e == Head(tbl)
             frame == [archive_offset |-> archive_offset,
                       encoded_size |-> e.encoded_size,
                       content_size |-> e.content_size,
                       virtual_start_offset |-> virtual_offset,
                       virtual_end_offset |-> virtual_offset + e.content_size]
         IN  FrameLoop(Tail(tbl), archive_offset + e.encoded_size,
                       virtual_offset + e.content_size, Append(frames, frame))

\* CascFileSpan::new and the place the reader is left at
NewSpan(path, h, virtual_offset, archive_offset, loop) ==
    [kind |-> "Ok",
     span |-> [span_reader |-> h,
               virtual_start_offset |-> virtual_offset,
               virtual_end_offset |-> loop.virtual_offset,
               archive_offset |-> archive_offset,
               frames |-> loop.frames],
     virtual_offset |-> loop.virtual_offset,
     cursor |-> [path |-> path, pos |-> archive_offset]]

\* read_array::<BlockTableEntry>(frame_count) at tbl_at, then the frames
ReadBlockTable(file, path, h, virtual_offset, tbl_at, frame_count) ==
    IF tbl_at + frame_count * BlockTableEntrySize > Len(file)
    THEN [kind |-> "Err", err |-> "Io"]
    ELSE NewSpan(path, h, virtual_offset, tbl_at + frame_count * BlockTableEntrySize,
                 FrameLoop([k \in 1..frame_count |->
                              [encoded_size |-> BE32(file, tbl_at + (k - 1) * BlockTableEntrySize),
                               content_size |-> BE32(file, tbl_at + (k - 1) * BlockTableEntrySize + 4)]],
                           tbl_at + frame_count * BlockTableEntrySize, virtual_offset, <<>>))

\* read_struct::<BlockTableHeader>() at hdr_at and the signature check
ReadBlockTableHeader(file, path, h, virtual_offset, hdr_at) ==
    IF hdr_at + BlockTableHeaderSize > Len(file) THEN [kind |-> "Err", err |-> "Io"]
    ELSE IF LE32(file, hdr_at) # BLTE_SIGNATURE THEN [kind |-> "Err", err |-> "InvalidData"]
    ELSE ReadBlockTable(file, path, h, virtual_offset, hdr_at + BlockTableHeaderSize,
                        FrameCount(file, hdr_at + 9))

\* the body of the span loop with a span header of 36 bytes skipped
OpenSpanHeader36(path, e, virtual_offset, h) ==
    ReadBlockTableHeader(FsContent[path], path, h, virtual_offset, e.offset + 36)

\* the body of the span loop for a span that has an IDX entry e: the file
\* is opened, the reader seeks to e.offset and skips the span header
OpenSpan(path, e, virtual_offset, h) ==
    ReadBlockTableHeader(FsContent[path], path, h, virtual_offset, e.offset + SpanHeaderSize)

\* the loop over entry.spans
RECURSIVE SpanLoop(_, _, _, _, _, _, _)
RECURSIVE SpanLoopPush(_, _, _, _, _, _, _, _)
\* the loop going on with the virtual offset back at 0 after each span
SpanLoopPushRestart(spaninfos, ents, paths, slot, spans, cur, h, r) ==
    IF r.kind # "Ok"
    THEN [kind |-> r.kind, err |-> r.err, cur |-> cur]
    ELSE SpanLoop(Tail(spaninfos), ents, paths, slot, 0,
                  Append(spans, r.span), [cur EXCEPT ![h] = r.cursor])

SpanLoopPush(spaninfos, ents, paths, slot, spans, cur, h, r) ==
    IF r.kind # "Ok"
    THEN [kind |-> r.kind, err |-> r.err, cur |-> cur]
    ELSE SpanLoop(Tail(spaninfos), ents, paths, slot, r.virtual_offset,
                  Append(spans, r.span), [cur EXCEPT ![h] = r.cursor])

SpanLoopEntry(spaninfos, ents, paths, slot, virtual_offset, spans, cur, e) ==
    IF e.archive_index + 1 > Len(paths)
    THEN [kind |-> "Panic", err |-> "index out of bounds", cur |-> cur]
    ELSE SpanLoopPush(spaninfos, ents, paths, slot, spans, cur,
                      SpanReader(slot, Len(spans) + 1, e.archive_index),
                      OpenSpan(paths[e.archive_index + 1], e, virtual_offset,
                               SpanReader(slot, Len(spans) + 1, e.archive_index)))

SpanLoop(spaninfos, ents, paths, slot, virtual_offset, spans, cur) ==
    IF Len(spaninfos) = 0
    THEN [kind |-> "Ok", spans |-> spans, size |-> virtual_offset, cur |-> cur]
    ELSE IF Head(spaninfos).base64_encoding_key \notin DOMAIN ents
    THEN SpanLoop(Tail(spaninfos), ents, paths, slot, virtual_offset, spans, cur)
    ELSE SpanLoopEntry(spaninfos, ents, paths, slot, virtual_offset, spans, cur,
                       ents[Head(spaninfos).base64_encoding_key])

\* Ok(CascFile::new(spans, virtual_offset)), or the error of the loop
OpenFileResult(name, r) ==
    IF r.kind # "Ok" THEN r
    ELSE [kind |-> "Ok", stream |-> CascFileNew(name, r.spans, r.size), cur |-> r.cur]

\* A mutant of OpenFile: the stream's size is taken from the IDX records
\* of the spans (as load_files does) instead of from the frames.
OpenFileIdxSize(fes, ents, paths, cur, slot, name) ==
    IF name \notin DOMAIN fes
    THEN [kind |-> "Err", err |-> "FileNotFound", cur |-> cur]
    ELSE LET r == SpanLoop(fes[name].spans, ents, paths, slot, 0, <<>>, cur)
             sz == SumSeq([i \in 1..Len(fes[name].spans) |->
                             IF fes[name].spans[i].base64_encoding_key \in DOMAIN ents
                             THEN ents[fes[name].spans[i].base64_encoding_key].size ELSE 0])
         IN  IF r.kind # "Ok" THEN r
             ELSE [kind |-> "Ok", stream |-> CascFileNew(name, r.spans, sz), cur |-> r.cur]

\* open_file(&self, entry), called for the stream of caller slot `slot`
OpenFile(fes, ents, paths, cur, slot, name) ==
    IF name \notin DOMAIN fes
    THEN [kind |-> "Err", err |-> "FileNotFound", cur |-> cur]
    ELSE OpenFileResult(name, SpanLoop(fes[name].spans, ents, paths, slot, 0, <<>>, cur))

(***************************************************************************)
(* impl Seek for CascFile.                                                 *)
(***************************************************************************)
Whences == {"Start", "Current", "End"}

\* A mutant of SeekPosition: SeekFrom::Current is taken from the start.
SeekPositionAbsolute(st, whence, offset) ==
    CASE whence = "Start" -> offset
      [] whence = "Current" -> offset
      [] whence = "End" -> st.internal_size - offset

\* seek(&mut self, pos): the new internal_position; the call returns Ok(it)
SeekPosition(st, whence, offset) ==
    CASE whence = "Start" -> offset
      [] whence = "Current" -> st.internal_position + offset
      [] whence = "End" -> st.internal_size - offset

Seek(st, whence, offset) ==
    [st EXCEPT !.internal_position = SeekPosition(st, whence, offset)]

(***************************************************************************)
(* impl Read for CascFile.  One call of read is a little machine: its      *)
(* locals are `loc`, and it stops between two operations on the span's     *)
(* file description (seek, read of the tag byte, read of the payload).     *)
(* RunRead runs it to completion.                                          *)
(***************************************************************************)
NoFrame ==
    [archive_offset |-> 0, encoded_size |-> 0, content_size |-> 0,
     virtual_start_offset |-> 0, virtual_end_offset |-> 0]

Ok(n) == [kind |-> "Ok", n |-> n, err |-> ""]

Err(e) == [kind |-> "Err", n |-> 0, err |-> e]

Panic(e) == [kind |-> "Panic", n |-> 0, err |-> e]

IdleRead ==
    [pc |-> "idle", len |-> 0, to_read |-> 0, consumed |-> 0, offset |-> 0,
     read_start_pos |-> 0, out |-> <<>>, frame |-> NoFrame, h |-> <<0, 1>>, tag |-> 0,
     ret |-> Ok(0),
     events |-> <<>>,     \* (history) what each turn of the loop did, in order
     st0 |-> NoStream,    \* (history) the stream as the call found it
     mixed |-> FALSE]     \* (history) another caller's read took a step meanwhile

Done(loc, ret) == [loc EXCEPT !.pc = "done", !.ret = ret]

\* BlockTableEncoderType::from(byte)
BlockTableEncoderType(byte) ==
    CASE byte = TAG_RAW -> "Raw"
      [] byte = TAG_ZLIB -> "ZLib"
      [] byte = TAG_ENCRYPTED -> "Encrypted"
      [] OTHER -> "Unknown"

\* iter_mut().find(|x| pos >= x.virtual_start_offset && pos < x.virtual_end_offset):
\* the index of the first element covering pos, 0 when there is none
FindCovering(xs, pos) ==
    LET c == {i \in 1..Len(xs) :
                U64Le(xs[i].virtual_start_offset, pos) /\ U64Lt(pos, xs[i].virtual_end_offset)}
    IN  IF c = {} THEN 0 ELSE CHOOSE i \in c : \A j \in c : i <= j

\* the entry checks with the end-of-file test one byte early
ReadEnterLastByte(st, len) ==
    IF ~st.is_open THEN Done(IdleRead, Err("Stream is closed"))
    ELSE IF U64Le(st.internal_size, st.internal_position + 1) THEN Done(IdleRead, Ok(0))
    ELSE [IdleRead EXCEPT !.pc = "loop", !.len = len, !.to_read = len,
                          !.read_start_pos = st.internal_position]

\* lines 52-63: the entry checks
ReadEnter(st, len) ==
    IF ~st.is_open THEN Done(IdleRead, Err("Stream is closed"))
    ELSE IF U64Le(st.internal_size, st.internal_position) THEN Done(IdleRead, Ok(0))
    ELSE [IdleRead EXCEPT !.pc = "loop", !.len = len, !.to_read = len,
                          !.read_start_pos = st.internal_position]

\* lines 64-112: the loop test, the cache-hit branch, the frame lookup and
\* the seek of the span reader
\* a cache test that leaves out the end of the cached range
CacheHitNoEnd(st, read_start_pos) ==
    /\ st.has_cache
    /\ U64Le(st.cache_start_position, read_start_pos)

\* lines 65-70: the cache holds the byte at read_start_pos
CacheHit(st, read_start_pos) ==
    /\ st.has_cache
    /\ SaturatingSub(st.cache_end_position, read_start_pos) # 0
    /\ U64Le(st.cache_start_position, read_start_pos)
    /\ U64Lt(read_start_pos, st.cache_end_position)

\* (history) one turn of the loop: bytes copied out of the cache ("serve"), or
\* the archive read of a frame begun ("decode"), with the cache as it was then
LoopEvent(kind, st, at, n, frame_start) ==
    [kind |-> kind, at |-> at, n |-> n, frame |-> frame_start, has |-> st.has_cache,
     lo |-> st.cache_start_position, hi |-> st.cache_end_position]

StepLoop(st, loc, cur) ==
    IF loc.to_read = 0 THEN [st |-> st, loc |-> Done(loc, Ok(loc.consumed)), cur |-> cur]
    ELSE
    LET cache_available == SaturatingSub(st.cache_end_position, loc.read_start_pos)
        hit == CacheHit(st, loc.read_start_pos)
        p == loc.read_start_pos - st.cache_start_position
        buf_available == IF loc.offset > loc.len THEN 0 ELSE loc.len - loc.offset
        n == UMin(loc.to_read, UMin(cache_available, buf_available))
    IN  IF hit /\ p + n > Len(st.cache)
        THEN [st |-> st, loc |-> Done(loc, Panic("range end index out of range")), cur |-> cur]
        ELSE
        LET st1 == IF hit THEN Seek(st, "Current", n) ELSE st
            loc1 == IF hit
                    THEN [loc EXCEPT !.to_read = @ - n, !.offset = @ + n, !.consumed = @ + n,
                                     !.out = @ \o Slice(st.cache, p, n),
                                     !.events = Append(@, LoopEvent("serve", st,
                                                           loc.read_start_pos, n, 0))]
                    ELSE loc
            pos == st1.internal_position
            si == FindCovering(st1.spans, pos)
            fi == IF si = 0 THEN 0 ELSE FindCovering(st1.spans[si].frames, pos)
        IN  IF loc1.to_read = 0
            THEN [st |-> st1, loc |-> Done(loc1, Ok(loc1.consumed)), cur |-> cur]
            ELSE IF U64Le(st1.internal_size, pos)
            THEN [st |-> st1, loc |-> Done(loc1, Ok(loc1.consumed)), cur |-> cur]
            ELSE IF si = 0
            THEN [st |-> st1, loc |-> Done(loc1, Err("Span not found")), cur |-> cur]
            ELSE IF fi = 0
            THEN [st |-> st1, loc |-> Done(loc1, Err("Frame not found")), cur |-> cur]
            ELSE LET frame == st1.spans[si].frames[fi]
                     h == st1.spans[si].span_reader
                 IN  [st |-> st1,
                      loc |-> [loc1 EXCEPT !.pc = "tag", !.read_start_pos = pos,
                                           !.frame = frame, !.h = h,
                                           !.events = Append(@, LoopEvent("decode", st1, pos,
                                                           0, frame.virtual_start_offset))],
                      cur |-> [cur EXCEPT ![h].pos = frame.archive_offset]]

\* lines 113-117: the cache bounds are set, then the tag byte is read
StepTag(st, loc, cur) ==
    LET st1 == [st EXCEPT !.cache_start_position = loc.frame.virtual_start_offset,
                          !.cache_end_position =
                              loc.frame.virtual_start_offset + loc.frame.content_size]
        file == FsContent[cur[loc.h].path]
        at == cur[loc.h].pos
    IN  IF at + 1 > Len(file)
        THEN [st |-> st1, loc |-> Done(loc, Err("Io")), cur |-> cur]
        ELSE [st |-> st1,
              loc |-> [loc EXCEPT !.pc = "payload", !.tag = file[at + 1]],
              cur |-> [cur EXCEPT ![loc.h].pos = at + 1]]

\* lines 118-133: the payload is read and decoded into a new cache
StepPayload(st, loc, cur) ==
    LET file == FsContent[cur[loc.h].path]
        at == cur[loc.h].pos
        block_type == BlockTableEncoderType(loc.tag)
    IN  CASE block_type = "Raw" ->
               IF at + loc.frame.content_size > Len(file)
               THEN [st |-> st, loc |-> Done(loc, Err("Io")), cur |-> cur]
               ELSE [st |-> [st EXCEPT !.has_cache = TRUE,
                                       !.cache = Slice(file, at, loc.frame.content_size)],
                     loc |-> [loc EXCEPT !.pc = "loop"],
                     cur |-> [cur EXCEPT ![loc.h].pos = at + loc.frame.content_size]]
          [] block_type = "ZLib" ->
               IF loc.frame.encoded_size = 0
               THEN [st |-> st, loc |-> Done(loc, Panic("subtract with overflow")), cur |-> cur]
               ELSE IF at + loc.frame.encoded_size - 1 > Len(file)
               THEN [st |-> st, loc |-> Done(loc, Err("Io")), cur |-> cur]
               ELSE LET inf == Inflate(Slice(file, at, loc.frame.encoded_size - 1))
                        cur1 == [cur EXCEPT ![loc.h].pos = at + loc.frame.encoded_size - 1]
                    IN  IF ~inf.ok
                        THEN [st |-> st, loc |-> Done(loc, Err("Io")), cur |-> cur1]
                        ELSE [st |-> [st EXCEPT !.has_cache = TRUE, !.cache = inf.data],
                              loc |-> [loc EXCEPT !.pc = "loop"],
                              cur |-> cur1]
          [] OTHER ->
               [st |-> st, loc |-> Done(loc, Err("Unsupported Block Table Type")), cur |-> cur]

Step(st, loc, cur) ==
    CASE loc.pc = "loop" -> StepLoop(st, loc, cur)
      [] loc.pc = "tag" -> StepTag(st, loc, cur)
      [] loc.pc = "payload" -> StepPayload(st, loc, cur)

RECURSIVE RunRead(_, _, _)
RunRead(st, loc, cur) ==
    IF loc.pc = "done" THEN [st |-> st, loc |-> loc, cur |-> cur]
    ELSE LET r == Step(st, loc, cur) IN RunRead(r.st, r.loc, r.cur)

\* read(&mut self, buf) with buf.len() = len, as one call
Read(st, len, cur) == RunRead(st, ReadEnter(st, len), cur)

(***************************************************************************)
(* The state machine: one caller, holding at most one stream in slot 1,    *)
(* opens files, seeks and reads; every call is one step.                   *)
(***************************************************************************)
NoCall ==
    [op |-> "none", name |-> "", whence |-> "", arg |-> 0, prev |-> 0,
     ret |-> Ok(0), out |-> <<>>, after_start |-> FALSE, events |-> <<>>]

NoRun == [pure |-> FALSE, ok |-> TRUE, bytes |-> <<>>, decodes |-> <<>>]

\* the caller of slot `slot` is between two calls (and has not panicked)
Ready(slot) ==
    /\ hist[slot].ret.kind # "Panic"
    /\ rd[slot].pc \in {"idle", "done"}
    /\ rd[slot].ret.kind # "Panic"

CloseSlot(cur, slot) ==
    [h \in Handles |-> IF h[1] = slot THEN ClosedCursor ELSE cur[h]]

InitStorage(d) ==
    /\ entries = EntriesOf(d)
    /\ file_entries = FileEntriesOf(d)
    /\ files = LoadFiles(FileEntriesOf(d), EntriesOf(d))
    /\ data_file_paths = DataFilePathsOf(d)
    /\ cursors = [h \in Handles |->
                    IF h[1] = 0 /\ h[2] <= d.narchives
                    THEN [path |-> PathOf(d, h[2] - 1), pos |-> 0]
                    ELSE ClosedCursor]

\* no caller holds a stream yet
NoCallers ==
    /\ streams = [s \in Slots |-> NoStream]
    /\ hist = [s \in Slots |-> NoCall]
    /\ run = [s \in Slots |-> NoRun]
    /\ rd = [s \in Slots |-> IdleRead]

\* CascStorage::open has returned
NoBoot == [job |-> "opened"]

Init ==
    /\ \E d \in Storages : InitStorage(d)
    /\ NoCallers
    /\ boot = NoBoot

\* the caller of slot `slot` gets r from open_file(name)
OpenFileReturn(slot, name, r) ==
    /\ Ready(slot)
    /\ IF r.kind = "Ok"
       THEN /\ streams' = [streams EXCEPT ![slot] = r.stream]
            /\ cursors' = r.cur
            /\ run' = [run EXCEPT ![slot] = [NoRun EXCEPT !.pure = TRUE]]
       ELSE /\ UNCHANGED <<streams, cursors>>
            /\ run' = [run EXCEPT ![slot] = NoRun]
    /\ hist' = [hist EXCEPT ![slot] =
                  [NoCall EXCEPT !.op = "open", !.name = name,
                                 !.ret = IF r.kind = "Ok" THEN Ok(0)
                                         ELSE [kind |-> r.kind, n |-> 0, err |-> r.err]]]
    /\ rd' = [rd EXCEPT ![slot] = IdleRead]
    /\ UNCHANGED boot

\* what open_file(name) does to the caller: the result is kept in caller slot
\* `slot`, whose previous stream is dropped when a new one is returned
OpenFileEffect(slot, name) ==
    OpenFileReturn(slot, name,
                   OpenFile(file_entries, entries, data_file_paths,
                            CloseSlot(cursors, slot), slot, name))

\* A mutant of DoOpenFile: the IDX entries of the file's spans are taken out
\* of the map (HashMap::remove in place of HashMap::get).
DoOpenFileRemoving(slot, name) ==
    /\ OpenFileEffect(slot, name)
    /\ entries' = [k \in DOMAIN entries \
                         (IF name \in DOMAIN file_entries
                          THEN {file_entries[name].spans[i].base64_encoding_key :
                                   i \in 1..Len(file_entries[name].spans)}
                          ELSE {}) |-> entries[k]]
    /\ UNCHANGED <<file_entries, files, data_file_paths>>

\* storage.open_file(name): &self, the storage is only read
DoOpenFile(slot, name) ==
    /\ OpenFileEffect(slot, name)
    /\ UNCHANGED storageVars

\* a seek that also drops the cached frame
SeekEffectDroppingCache(slot, whence, offset) ==
    /\ streams[slot].live
    /\ Ready(slot)
    /\ Seek(streams[slot], whence, offset).internal_position \in (0 - PosCap)..PosCap
    /\ streams' = [streams EXCEPT ![slot] =
                      [Seek(streams[slot], whence, offset) EXCEPT !.has_cache = FALSE,
                                                                   !.cache = <<>>]]
    /\ rd' = [rd EXCEPT ![slot] = IdleRead]
    /\ UNCHANGED <<storageVars, cursors, boot>>

\* what stream.seek(SeekFrom::whence(offset)) does to the stream of `slot`
SeekEffect(slot, whence, offset) ==
    LET st == streams[slot]
        st1 == Seek(st, whence, offset)
    IN  /\ st.live
        /\ Ready(slot)
        /\ st1.internal_position \in (0 - PosCap)..PosCap
        /\ streams' = [streams EXCEPT ![slot] = st1]
        /\ rd' = [rd EXCEPT ![slot] = IdleRead]
        /\ UNCHANGED <<storageVars, cursors, boot>>

\* stream.seek(SeekFrom::whence(offset))
DoSeek(slot, whence, offset) ==
    LET st == streams[slot]
        st1 == Seek(st, whence, offset)
    IN  /\ SeekEffect(slot, whence, offset)
        /\ hist' = [hist EXCEPT ![slot] =
                      [NoCall EXCEPT !.op = "seek", !.whence = whence, !.arg = offset,
                                     !.prev = st.internal_position,
                                     !.ret = Ok(st1.internal_position)]]
        /\ run' = [run EXCEPT ![slot] = NoRun]

\* (history) the frames whose archive read the turns of a call began, in order
DecodedFrames(events) ==
    LET d == SelectSeq(events, LAMBDA e : e.kind = "decode")
    IN  [k \in 1..Len(d) |-> d[k].frame]

\* stream.read(buf) with buf.len() = len
DoRead(slot, len) ==
    LET st == streams[slot]
        r == Read(st, len, cursors)
        ret == r.loc.ret
    IN  /\ st.live
        /\ Ready(slot)
        /\ streams' = [streams EXCEPT ![slot] = r.st]
        /\ cursors' = r.cur
        /\ hist' = [hist EXCEPT ![slot] =
                      [NoCall EXCEPT !.op = "read", !.arg = len,
                                     !.prev = st.internal_position,
                                     !.ret = ret, !.out = r.loc.out,
                                     !.events = r.loc.events,
                                     !.after_start = (hist[slot].op = "seek"
                                                      /\ hist[slot].whence = "Start")]]
        /\ run' = [run EXCEPT ![slot] =
                     IF ~run[slot].pure THEN NoRun
                     ELSE IF run[slot].ok /\ ret.kind = "Ok"
                     THEN [run[slot] EXCEPT !.bytes = @ \o r.loc.out,
                                            !.decodes = @ \o DecodedFrames(r.loc.events)]
                     ELSE [NoRun EXCEPT !.pure = TRUE, !.ok = FALSE]]
        /\ UNCHANGED <<storageVars, rd, boot>>

SeekOffsets(whence) == IF whence = "Start" THEN 0..MaxStart ELSE (0 - MaxOff)..MaxOff

Next ==
    \/ \E name \in FileNames \cup {"missing"} : DoOpenFile(1, name)
    \/ \E whence \in Whences : \E offset \in SeekOffsets(whence) : DoSeek(1, whence, offset)
    \/ \E len \in 0..MaxBuf : DoRead(1, len)

Spec == Init /\ [][Next]_vars

(***************************************************************************)
(* What the files of a storage hold, read off the storage's description    *)
(* (not off what open_file parsed): the reference the claims compare with. *)
(***************************************************************************)
CurrentStorage == StorageById(data_file_paths[1][1])

\* the blobs of the spans of `name` that have an IDX record, in span order
FileBlobs(d, name) ==
    LET keys == SelectSeq(d.tvfs[name], LAMBDA k : \E x \in d.idx : x.key = k)
    IN  [i \in 1..Len(keys) |-> d.blobs[(CHOOSE x \in d.idx : x.key = keys[i]).blob]]

FileFrames(d, name) ==
    LET bl == FileBlobs(d, name) IN Flatten([i \in 1..Len(bl) |-> bl[i].frames])

FrameDecodable(f) ==
    \/ f.tag = TAG_RAW /\ Len(f.data) = f.cs /\ f.es = f.cs + 1
    \/ f.tag = TAG_ZLIB /\ f.es = Len(f.data) + 1
         /\ Inflate(f.data).ok /\ Len(Inflate(f.data).data) = f.cs

FrameContent(f) == IF f.tag = TAG_RAW THEN f.data ELSE Inflate(f.data).data

FileWellFormed(d, name) ==
    /\ \A i \in 1..Len(FileBlobs(d, name)) : FileBlobs(d, name)[i].sig = BlteMagic
    /\ \A k \in 1..Len(FileFrames(d, name)) : FrameDecodable(FileFrames(d, name)[k])

FileContent(d, name) ==
    LET fr == FileFrames(d, name) IN Flatten([k \in 1..Len(fr) |-> FrameContent(fr[k])])

FileContentSize(d, name) ==
    LET fr == FileFrames(d, name) IN SumSeq([k \in 1..Len(fr) |-> fr[k].cs])

\* the frames of a stream, in span order then frame order
StreamFrames(st) == Flatten([i \in 1..Len(st.spans) |-> st.spans[i].frames])

SumContentSize(st) ==
    LET fr == StreamFrames(st) IN SumSeq([k \in 1..Len(fr) |-> fr[k].content_size])

\* the encoder tag byte of frame k of span i of a stream
TagOf(st, i, k) ==
    FsContent[cursors[st.spans[i].span_reader].path][st.spans[i].frames[k].archive_offset + 1]

(***************************************************************************)
(* C1.  A seek-free run of reads with non-empty buffers from position 0 of *)
(* a stream whose frames are all Raw or ZLib with a well-formed payload    *)
(* never fails, delivers a prefix of the concatenation of the decoded      *)
(* frames, and has delivered all of it (the sum of content_size bytes)     *)
(* when a read returns 0.                                                  *)
(***************************************************************************)
C1_ReadToEndDeliversContent ==
    \A s \in Slots :
        LET st == streams[s]
            d == CurrentStorage
        IN  (st.live /\ run[s].pure /\ FileWellFormed(d, st.name)) =>
               /\ run[s].ok
               /\ run[s].bytes = SubSeq(FileContent(d, st.name), 1, Len(run[s].bytes))
               /\ (hist[s].op = "read" /\ hist[s].arg > 0 /\ hist[s].ret.n = 0) =>
                      /\ run[s].bytes = FileContent(d, st.name)
                      /\ Len(run[s].bytes) = FileContentSize(d, st.name)
                      /\ Len(run[s].bytes) = SumContentSize(st)

C1_Witness ==
    /\ streams[1].live /\ run[1].pure /\ FileWellFormed(CurrentStorage, streams[1].name)
    /\ Len(streams[1].spans) = 2
    /\ hist[1].op = "read" /\ hist[1].arg > 0 /\ hist[1].ret = Ok(0)
    /\ run[1].bytes = <<65, 66, 67, 68, 68>>

(***************************************************************************)
(* C2.  seek(Start(p)) followed by a read of n bytes, p + n <= size, from  *)
(* any prior state gives what a fresh stream gives: the slice [p, p+n) of  *)
(* its read of p + n bytes from 0 or, where that read cannot be made, the  *)
(* outcome of the same seek and read on the fresh stream.                  *)
(***************************************************************************)
FreshOf(st) == CascFileNew(st.name, st.spans, st.internal_size)

C2_SeekThenReadIsSlice ==
    \A s \in Slots :
        LET st == streams[s]
            h == hist[s]
            whole == Read(FreshOf(st), h.prev + h.arg, cursors).loc
            part == Read(Seek(FreshOf(st), "Start", h.prev), h.arg, cursors).loc
        IN  (st.live /\ h.op = "read" /\ h.after_start /\ h.prev >= 0
               /\ h.prev + h.arg <= st.internal_size) =>
              IF whole.ret.kind = "Ok"
              THEN h.ret.kind = "Ok" /\ h.out = Slice(whole.out, h.prev, h.arg)
              ELSE h.ret = part.ret /\ (h.ret.kind = "Ok" => h.out = part.out)

(***************************************************************************)
(* C3.  A read that succeeds from a position <= size returns exactly       *)
(* k = min(len(buf), size - position) bytes and advances the position by k.*)
(***************************************************************************)
C3_ReadFillsBuffer ==
    \A s \in Slots :
        LET st == streams[s]
            h == hist[s]
            k == IF h.arg < st.internal_size - h.prev THEN h.arg ELSE st.internal_size - h.prev
        IN  (st.live /\ h.op = "read" /\ h.ret.kind = "Ok"
               /\ h.prev >= 0 /\ h.prev <= st.internal_size) =>
              /\ h.ret.n = k
              /\ Len(h.out) = k
              /\ st.internal_position = h.prev + k

C3_Witness ==
    /\ streams[1].live /\ hist[1].op = "read" /\ hist[1].ret = Ok(3)
    /\ hist[1].prev = 2 /\ hist[1].out = <<67, 68, 68>>
    /\ streams[1].internal_position = 5

(***************************************************************************)
(* C4.  A read with a zero-length buffer returns 0 and leaves the position *)
(* unchanged; a read at position >= size returns 0, decodes no frame       *)
(* (no cursor moves) and leaves position and cache unchanged.              *)
(***************************************************************************)
C4_EmptyAndEofReads ==
    [][\A s \in Slots :
         (streams[s].live /\ hist'[s].op = "read") =>
            /\ hist'[s].arg = 0 =>
                  /\ hist'[s].ret = Ok(0)
                  /\ streams'[s].internal_position = streams[s].internal_position
            /\ (streams[s].internal_position < 0     \* a position of 2^63 or more
                  \/ streams[s].internal_position >= streams[s].internal_size) =>
                  /\ hist'[s].ret = Ok(0)
                  /\ streams'[s] = streams[s]
                  /\ cursors' = cursors]_vars

C4_Witness ==
    /\ streams[1].live /\ streams[1].has_cache
    /\ hist[1].op = "read" /\ hist[1].arg > 0 /\ hist[1].ret = Ok(0)
    /\ hist[1].prev < 0

(***************************************************************************)
(* C5.  seek(End(offset)) sets the position to size + offset and           *)
(* seek(Start(offset)) sets it to offset.                                  *)
(***************************************************************************)
C5_SeekEndIsSizePlusOffset ==
    \A s \in Slots :
        (streams[s].live /\ hist[s].op = "seek") =>
           /\ hist[s].whence = "End" =>
                 streams[s].internal_position = streams[s].internal_size + hist[s].arg
           /\ hist[s].whence = "Start" => streams[s].internal_position = hist[s].arg

(***************************************************************************)
(* C6.  seek(Current(offset)) sets the position to position + offset, and  *)
(* is rejected with an error, the position unchanged, when that would be   *)
(* negative; no seek leaves a wrapped-around position.                     *)
(***************************************************************************)
C6_SeekCurrentRejectsUnderflow ==
    \A s \in Slots :
        (streams[s].live /\ hist[s].op = "seek" /\ hist[s].whence = "Current"
           /\ hist[s].prev >= 0) =>
          IF hist[s].prev + hist[s].arg < 0
          THEN hist[s].ret.kind = "Err" /\ streams[s].internal_position = hist[s].prev
          ELSE streams[s].internal_position = hist[s].prev + hist[s].arg

(***************************************************************************)
(* C7.  A read that needs a byte of a frame whose tag is neither 'N' nor   *)
(* 'Z' fails with the unsupported error; it never returns Ok.              *)
(***************************************************************************)
NeedsUnsupported(st, p, len) ==
    /\ len > 0 /\ p >= 0 /\ p < st.internal_size
    /\ \E i \in 1..Len(st.spans) : \E k \in 1..Len(st.spans[i].frames) :
          LET f == st.spans[i].frames[k]
          IN  /\ TagOf(st, i, k) \notin {TAG_RAW, TAG_ZLIB}
              /\ f.virtual_start_offset < f.virtual_end_offset
              /\ f.virtual_start_offset < p + len
              /\ f.virtual_end_offset > p

C7_UnsupportedTagFails ==
    \A s \in Slots :
        (streams[s].live /\ hist[s].op = "read"
           /\ NeedsUnsupported(streams[s], hist[s].prev, hist[s].arg)) =>
          hist[s].ret = Err("Unsupported Block Table Type")

(***************************************************************************)
(* Interleaved callers: each of two callers holds one stream of the same   *)
(* storage and its read calls advance one operation on a file description  *)
(* at a time, so that the reads of the two callers interleave.             *)
(***************************************************************************)
ConcBuf == 2       \* length of the buffer of an interleaved read

ConcNames == {"a", "u"}

InProgress(slot) == rd[slot].pc \in {"loop", "tag", "payload"}

\* read is entered: the entry checks
ReadBegin(slot, len) ==
    LET st == streams[slot]
    IN  /\ st.live
        /\ Ready(slot)
        /\ rd' = [rd EXCEPT ![slot] = [ReadEnter(st, len) EXCEPT !.st0 = st]]
        /\ UNCHANGED <<storageVars, streams, cursors, hist, run, boot>>

\* the read in progress runs up to its next operation on a file description
ReadStep(slot) ==
    LET r == Step(streams[slot], rd[slot], cursors)
    IN  /\ InProgress(slot)
        /\ streams' = [streams EXCEPT ![slot] = r.st]
        /\ cursors' = r.cur
        /\ rd' = [s \in Slots |->
                    IF s = slot THEN r.loc
                    ELSE IF InProgress(s) THEN [rd[s] EXCEPT !.mixed = TRUE]
                    ELSE rd[s]]
        /\ UNCHANGED <<storageVars, hist, run, boot>>

\* a seek between two interleaved reads
ConcSeek(slot, offset) ==
    /\ SeekEffect(slot, "Start", offset)
    /\ UNCHANGED <<hist, run>>

NextConc ==
    \/ \E slot \in Slots : \E name \in ConcNames : DoOpenFile(slot, name)
    \/ \E slot \in Slots : ConcSeek(slot, 0)
    \/ \E slot \in Slots : \E len \in {ConcBuf} : ReadBegin(slot, len)
    \/ \E slot \in Slots : ReadStep(slot)

SpecConc == Init /\ [][NextConc]_vars

(***************************************************************************)
(* C8.  Under every interleaving of the reads of two streams of the same   *)
(* storage, a read that has returned left its stream in the state, and     *)
(* returned the result and the bytes, that the same call gives when it     *)
(* runs alone from the state it found the stream in.                       *)
(***************************************************************************)
C8_StreamsDoNotInterfere ==
    \A s \in Slots :
        rd[s].pc = "done" =>
            LET alone == Read(rd[s].st0, rd[s].len, cursors)
            IN  /\ rd[s].ret = alone.loc.ret
                /\ rd[s].out = alone.loc.out
                /\ streams[s] = alone.st

C8_Witness ==
    /\ rd[1].pc = "done" /\ rd[1].mixed /\ rd[1].ret = Ok(2)
    /\ rd[2].pc = "done" /\ rd[2].mixed /\ rd[2].ret = Ok(2)
    /\ cursors[streams[1].spans[1].span_reader].path
         = cursors[streams[2].spans[1].span_reader].path

(***************************************************************************)
(* C9.  Once opened the storage is immutable: no open_file call, seek or   *)
(* read changes the IDX entry map, the TVFS file entries, the files list   *)
(* or the data-file paths, and every open_file call returns what the same  *)
(* call returns on the storage as open left it, whatever calls came before.*)
(***************************************************************************)
C9_StorageImmutable ==
    [][/\ UNCHANGED storageVars
       /\ \A s \in Slots :
            hist'[s].op = "open" =>
               LET d == CurrentStorage
                   r == OpenFile(FileEntriesOf(d), EntriesOf(d), DataFilePathsOf(d),
                                 CloseSlot(cursors, s), s, hist'[s].name)
               IN  IF r.kind = "Ok"
                   THEN hist'[s].ret = Ok(0) /\ streams'[s] = r.stream
                   ELSE hist'[s].ret = [kind |-> r.kind, n |-> 0, err |-> r.err]]_vars

C9_Witness ==
    /\ streams[1].live /\ streams[1].has_cache
    /\ hist[1].op = "open" /\ hist[1].ret.kind = "Err"
    /\ entries = EntriesOf(CurrentStorage)
    /\ files = LoadFiles(FileEntriesOf(CurrentStorage), EntriesOf(CurrentStorage))

(***************************************************************************)
(* C10 (as claimed).  For a file whose spans all resolve, the file_size    *)
(* reported in storage.files equals size() of the stream open_file returns *)
(* and both equal the sum of content_size over the file's frames.          *)
(***************************************************************************)
C10_FileSizeIsStreamSize ==
    \A s \in Slots :
        LET st == streams[s]
        IN  (st.live /\ files[st.name].is_local) =>
               /\ files[st.name].file_size = st.internal_size
               /\ st.internal_size = SumContentSize(st)

(***************************************************************************)
(* C10 (amended).  size() of the stream open_file returns is the sum of    *)
(* content_size over the frames of the file's resolved spans; the          *)
(* file_size reported in storage.files for a file whose spans all resolve  *)
(* is the sum of the IDX size fields of its spans.                         *)
(***************************************************************************)
IdxSizeSum(name) ==
    SumSeq([i \in 1..Len(file_entries[name].spans) |->
              entries[file_entries[name].spans[i].base64_encoding_key].size])

C10_StreamSizeIsContentSum ==
    \A s \in Slots :
        LET st == streams[s]
        IN  st.live =>
               /\ st.internal_size = SumContentSize(st)
               /\ st.internal_size = FileContentSize(CurrentStorage, st.name)
               /\ files[st.name].is_local => files[st.name].file_size = IdxSizeSum(st.name)

C10_Witness ==
    /\ streams[1].live /\ files[streams[1].name].is_local
    /\ Len(streams[1].spans) = 2
    /\ streams[1].internal_size = 5
    /\ files[streams[1].name].file_size # streams[1].internal_size

(***************************************************************************)
(* C12.  A span whose encoding key begins with the 9-byte key of an IDX    *)
(* record resolves to that record: a file all of whose spans do is         *)
(* reported local, and the stream open_file returns for it holds every     *)
(* one of its spans.                                                       *)
(***************************************************************************)
IdxKeyLen == 9

ResolvesByPrefix(e_key) ==
    /\ Len(e_key) >= IdxKeyLen
    /\ \E k \in DOMAIN entries : entries[k].encoding_key = SubSeq(e_key, 1, IdxKeyLen)

C12_SpanResolvesByPrefix ==
    \A s \in Slots :
        LET st == streams[s]
        IN  (/\ st.live
             /\ \A i \in 1..Len(file_entries[st.name].spans) :
                   ResolvesByPrefix(file_entries[st.name].spans[i].encoding_key)) =>
               /\ files[st.name].is_local
               /\ Len(st.spans) = Len(file_entries[st.name].spans)

(***************************************************************************)
(* C13.  For a file reported with is_local = false, open_file succeeds and *)
(* the stream it returns is empty: its size is 0 and its reads return 0.   *)
(***************************************************************************)
C13_NonLocalFileOpensEmpty ==
    \A s \in Slots :
        /\ (hist[s].op = "open" /\ hist[s].name \in DOMAIN files
               /\ ~files[hist[s].name].is_local) =>
              hist[s].ret = Ok(0)
        /\ (streams[s].live /\ ~files[streams[s].name].is_local) =>
              /\ streams[s].internal_size = 0
              /\ hist[s].op = "read" => hist[s].ret = Ok(0)

(***************************************************************************)
(* C16.  Every IDX record of an opened storage has an archive_index below  *)
(* the number of data files, so that no open_file call indexes the list of *)
(* data-file paths out of range.                                           *)
(***************************************************************************)
C16_ArchiveIndexInRange ==
    \A s \in Slots :
        hist[s].op = "open" =>
           /\ \A k \in DOMAIN entries : entries[k].archive_index < Len(data_file_paths)
           /\ hist[s].ret.kind # "Panic"

(***************************************************************************)
(* C20.  On a stream of a file with well-formed Raw/ZLib frames every read *)
(* with a non-empty buffer at a position below the size returns, with at   *)
(* least one byte, and advances the position by the count it returns, also *)
(* when frames of content_size 0 or spans without frames are present: a    *)
(* copy to end of file makes progress at every call until position = size. *)
(***************************************************************************)
C20_ReadMakesProgress ==
    \A s \in Slots :
        LET st == streams[s]
            h == hist[s]
        IN  (/\ st.live /\ h.op = "read" /\ h.arg > 0
             /\ FileWellFormed(CurrentStorage, st.name)
             /\ h.prev >= 0 /\ h.prev < st.internal_size) =>
               /\ h.ret.kind = "Ok"
               /\ h.ret.n >= 1
               /\ st.internal_position = h.prev + h.ret.n
               /\ st.internal_position <= st.internal_size

C20_Witness ==
    /\ streams[1].live /\ FileWellFormed(CurrentStorage, streams[1].name)
    /\ \E k \in 1..Len(StreamFrames(streams[1])) :
          StreamFrames(streams[1])[k].content_size = 0
    /\ hist[1].op = "read" /\ hist[1].arg = 1
    /\ hist[1].prev = streams[1].internal_size - 1
    /\ hist[1].ret = Ok(1)
    /\ streams[1].internal_position = streams[1].internal_size

(***************************************************************************)
(* The steps of CascStorage::open, each applied to inputs drawn from       *)
(* bounded sets.  boot holds the step under study (job), its input (arg),  *)
(* and, once the step has run (pc = "out"), its outcome (res).             *)
(***************************************************************************)
MaxSpans == 3

SeqsUpTo(S, n) == UNION {[1..k -> S] : k \in 0..n}

BootIn(job, arg) == [job |-> job, pc |-> "in", arg |-> arg, res |-> <<>>]

BootOut(res) == [boot EXCEPT !.pc = "out", !.res = res]

BootStep(job, res) ==
    /\ boot.job = job
    /\ boot.pc = "in"
    /\ boot' = BootOut(res)
    /\ UNCHANGED <<storageVars, streams, cursors, hist, run, rd>>

\* load_files on the IDX map of a storage and two TVFS entries whose spans
\* name records of the map or a key the map does not hold
LoadKeys == {Key9(1), Key9(2), Key9(9)}

LoadFilesInputs ==
    {BootIn("load_files",
            [entries |-> EntriesOf(StorageA),
             file_entries |->
                 [n \in {"x", "y"} |->
                     [name |-> n,
                      spans |-> [i \in 1..Len(IF n = "x" THEN x ELSE y) |->
                                    SpanInfoNew((IF n = "x" THEN x ELSE y)[i])]]]]) :
        x \in SeqsUpTo(LoadKeys, MaxSpans), y \in SeqsUpTo(LoadKeys, 1)}

DoLoadFiles ==
    BootStep("load_files",
             [ret |-> Ok(0), files |-> LoadFiles(boot.arg.file_entries, boot.arg.entries)])

(***************************************************************************)
(* CascKeyMappingTable::new on the bytes of one .idx file.  The 64-bit and *)
(* 32-bit fields of a record are held as their big-endian bytes (8 and 4), *)
(* and shifts and masks are computed on their bits.                        *)
(***************************************************************************)
\* the 8*Len(bs) bits of a byte string, most significant first
ToBits(bs) == [i \in 1..(8 * Len(bs)) |-> (bs[((i - 1) \div 8) + 1] \div 2^(7 - ((i - 1) % 8))) % 2]

RECURSIVE BitsValue(_)
BitsValue(bits) ==
    IF Len(bits) = 0 THEN 0 ELSE 2 * BitsValue(SubSeq(bits, 1, Len(bits) - 1)) + bits[Len(bits)]

FromBits(bits) == [i \in 1..(Len(bits) \div 8) |-> BitsValue(SubSeq(bits, 8 * i - 7, 8 * i))]

\* x >> n and x << n of a u64
U64Shr(x, n) == FromBits([i \in 1..64 |-> IF i <= n THEN 0 ELSE ToBits(x)[i - n]])

U64Shl(x, n) == FromBits([i \in 1..64 |-> IF i + n > 64 THEN 0 ELSE ToBits(x)[i + n]])

U64And(x, y) == FromBits([i \in 1..64 |-> ToBits(x)[i] * ToBits(y)[i]])

U64Or(x, y) == FromBits([i \in 1..64 |-> IF ToBits(x)[i] + ToBits(y)[i] > 0 THEN 1 ELSE 0])

\* (x << 8) | b for a byte b
U64PushByte(x, b) == Tail(x) \o <<b>>

U32PushByte(x, b) == Tail(x) \o <<b>>

\* x as u32 of a u64: the low four bytes
U64AsU32(x) == SubSeq(x, 5, 8)

\* v as u64 of an i32 v (sign extension)
I32AsU64(v) ==
    [i \in 1..8 |-> IF i <= 4 THEN (IF v < 0 THEN 255 ELSE 0) ELSE (v \div 256^(8 - i)) % 256]

I32Max == 2147483647

\* (1 << file_offset_bits) - 1 in i32, line 71.  With overflow checks (debug
\* profile) a shift by 32 or more and the subtraction from i32::MIN panic;
\* without them (release profile) the shift amount is taken modulo 32 and the
\* subtraction wraps.
FileOffsetMaskNoChecks(file_offset_bits) ==
    IF file_offset_bits % 32 = 31 THEN Ok(I32Max) ELSE Ok(2^(file_offset_bits % 32) - 1)

FileOffsetMask(file_offset_bits, overflow_checks) ==
    IF ~overflow_checks THEN FileOffsetMaskNoChecks(file_offset_bits)
    ELSE IF file_offset_bits >= 32 THEN Panic("attempt to shift left with overflow")
    ELSE IF file_offset_bits = 31 THEN Panic("attempt to subtract with overflow")
    ELSE Ok(2^file_offset_bits - 1)

\* the two loops of CascKeyMappingTableEntry::new, lines 118-127
RECURSIVE PackedLoop(_, _, _, _)
PackedLoop(buffer, table, i, packed) ==
    IF i = 5 THEN packed
    ELSE PackedLoop(buffer, table, i + 1,
                    U64PushByte(packed, buffer[i + table.encoding_key_length + 1]))

RECURSIVE SizeLoop(_, _, _, _)
SizeLoop(buffer, table, i, size) ==
    IF i < 0 THEN size
    ELSE SizeLoop(buffer, table, i - 1,
                  U32PushByte(size, buffer[i + table.encoding_key_length
                                             + table.storage_offset_length + 1]))

\* CascKeyMappingTableEntry::new; an index past the buffer panics
EntryFields(buffer, table, packed) ==
    [kind |-> "Ok",
     entry |-> [encoding_key |-> SubSeq(buffer, 1, table.encoding_key_length),
                offset |-> U64And(packed, table.file_offset_mask),
                size |-> SizeLoop(buffer, table, 3, Zeros(4)),
                archive_index |-> U64AsU32(U64Shr(packed, table.file_offset_bits))]]

CascKeyMappingTableEntryNew(buffer, table) ==
    IF \/ table.encoding_key_length + 5 > Len(buffer)
       \/ table.encoding_key_length + table.storage_offset_length + 4 > Len(buffer)
    THEN [kind |-> "Panic", entry |-> <<>>]
    ELSE EntryFields(buffer, table, PackedLoop(buffer, table, 0, Zeros(8)))

\* entries.insert(encoded, entry)
MapInsert(m, k, v) == [x \in (DOMAIN m) \cup {k} |-> IF x = k THEN v ELSE m[x]]

IdxResult(ret, ents) == [ret |-> ret, entries |-> ents]

\* lines 103-108: `left` iterations of the loop remain, the file cursor is at
\* the 0-based offset pos
RECURSIVE EntryLoop(_, _, _, _, _, _)
EntryLoopInsert(file, table, entry_size, pos, left, ents, e) ==
    IF e.kind = "Panic" THEN IdxResult(Panic("index out of bounds"), ents)
    ELSE EntryLoop(file, table, entry_size, pos + entry_size, left - 1,
                   MapInsert(ents, Base64(e.entry.encoding_key), e.entry))

EntryLoop(file, table, entry_size, pos, left, ents) ==
    IF left = 0 THEN IdxResult(Ok(0), ents)
    ELSE IF pos + entry_size > Len(file) THEN IdxResult(Err("Io"), ents)
    ELSE EntryLoopInsert(file, table, entry_size, pos, left, ents,
                         CascKeyMappingTableEntryNew(Slice(file, pos, entry_size), table))

\* lines 80-108 for a header that passed the validation; sum is the sum of the
\* three u8 lengths
IdxTable(file, table, new_pos, ents, sum, overflow_checks) ==
    IF new_pos + 8 > Len(file) THEN IdxResult(Err("Io"), ents)
    ELSE IF sum > 255 /\ overflow_checks
    THEN IdxResult(Panic("attempt to add with overflow"), ents)
    ELSE IF sum % 256 = 0 THEN IdxResult(Panic("assertion failed: step != 0"), ents)
    ELSE EntryLoop(file, table, sum % 256, new_pos + 8,
                   (LE32(file, new_pos) + (sum % 256) - 1) \div (sum % 256), ents)

\* line 74
LengthsRejected(encoded_size_length, encoding_key_length, storage_offset_length) ==
    encoded_size_length # 4 /\ encoding_key_length # 9 /\ storage_offset_length # 5

IdxHeaderSize == 24

\* (pos + 0x17) & 0xFFFFFFF0
AlignTable(pos) == ((pos + 23) \div 16) * 16

\* lines 60-79, after the mask was computed
IdxHeader(file, mask, ents, overflow_checks) ==
    IF mask.kind = "Panic" THEN IdxResult(mask, ents)
    ELSE IF Len(file) < IdxHeaderSize THEN IdxResult(Err("Io"), ents)
    ELSE IF LengthsRejected(file[13], file[15], file[14])
    THEN IdxResult(Err("FileCorrupted"), ents)
    ELSE IdxTable(file,
                  [encoded_size_length |-> file[13], storage_offset_length |-> file[14],
                   encoding_key_length |-> file[15], file_offset_bits |-> file[16],
                   file_offset_mask |-> I32AsU64(mask.n)],
                  AlignTable(IdxHeaderSize), ents, file[13] + file[14] + file[15],
                  overflow_checks)

\* CascKeyMappingTable::new(file_name, entries)
CascKeyMappingTableNew(file, ents, overflow_checks) ==
    IF Len(file) < 16 THEN IdxResult(Err("Io"), ents)
    ELSE IdxHeader(file, FileOffsetMask(file[16], overflow_checks), ents, overflow_checks)

\* the bytes of an .idx file with the given header fields and record bytes
IdxFile(encoded_size_length, storage_offset_length, encoding_key_length, file_offset_bits,
        table_size, records) ==
    <<16, 0, 0, 0>> \o Zeros(4) \o <<7, 0>> \o <<0, 0>>
    \o <<encoded_size_length, storage_offset_length, encoding_key_length, file_offset_bits>>
    \o Zeros(8) \o Zeros(8)
    \o <<table_size % 256, table_size \div 256, 0, 0>> \o Zeros(4)
    \o records

\* a record of key, packed offset-and-index and size fields
IdxRecord(key, packed, size) == key \o packed \o size

PackedFields == { <<0, 0, 0, 0, 0>>, <<255, 255, 255, 255, 255>>,
                  <<0, 64, 0, 0, 3>>, <<129, 0, 0, 1, 0>> }

MaxOffsetBits == 40

\* well-formed tables of one 18-byte record, for every file_offset_bits
IdxDecodeInputs ==
    {BootIn("idx",
            [file |-> IdxFile(4, 5, 9, bits, 18, IdxRecord(Key9(1), p, <<1, 2, 3, 200>>)),
             entries |-> <<>>, overflow_checks |-> oc, nrecords |-> 1]) :
        bits \in 0..MaxOffsetBits, p \in PackedFields, oc \in BOOLEAN}

\* tables of up to two records whose three length fields are each right or
\* one less
IdxLengthInputs ==
    {BootIn("idx",
            [file |-> IdxFile(a, b, c, 30, n * (a + b + c),
                              Flatten([i \in 1..n |-> SubSeq(Key9(i), 1, c)
                                                      \o SubSeq(<<0, 0, 0, 0, 64>>, 1, b)
                                                      \o SubSeq(<<5, 0, 0, 0>>, 1, a)])),
             entries |-> <<>>, overflow_checks |-> oc, nrecords |-> n]) :
        a \in {3, 4}, b \in {4, 5}, c \in {8, 9}, n \in 0..2, oc \in BOOLEAN}

MaxRecords == 3

\* well-formed headers whose table_size is around a multiple of the record
\* size, before up to MaxRecords whole records
IdxSizeInputs ==
    {BootIn("idx",
            [file |-> IdxFile(4, 5, 9, 30, 18 * q + d,
                              Flatten([i \in 1..n |->
                                         IdxRecord(Key9(i), <<0, 0, 0, 0, 64>>, <<5, 0, 0, 0>>)])),
             entries |-> <<>>, overflow_checks |-> oc, nrecords |-> n]) :
        q \in 0..2, d \in {0, 1, 17}, n \in 0..MaxRecords, oc \in BOOLEAN}

IdxInputs == IdxDecodeInputs \cup IdxLengthInputs \cup IdxSizeInputs

DoIdx ==
    BootStep("idx",
             CascKeyMappingTableNew(boot.arg.file, boot.arg.entries, boot.arg.overflow_checks))

(***************************************************************************)
(* load_root_handler, lines 246-261: the IDX key of the root file.  A      *)
(* config value is a sequence of one-character strings.                    *)
(***************************************************************************)
\* hex: the value of a digit, -1 for any other character
HexVal(c) ==
    CASE c = "0" -> 0 [] c = "1" -> 1 [] c = "2" -> 2 [] c = "3" -> 3 [] c = "4" -> 4
      [] c = "5" -> 5 [] c = "6" -> 6 [] c = "7" -> 7 [] c = "8" -> 8 [] c = "9" -> 9
      [] c \in {"a", "A"} -> 10 [] c \in {"b", "B"} -> 11 [] c \in {"c", "C"} -> 12
      [] c \in {"d", "D"} -> 13 [] c \in {"e", "E"} -> 14 [] c \in {"f", "F"} -> 15
      [] OTHER -> -1

\* hex::decode of a string of even length, pair by pair
RECURSIVE HexPairs(_, _)
HexPairs(v, acc) ==
    IF Len(v) = 0 THEN [ok |-> TRUE, bytes |-> acc]
    ELSE IF HexVal(v[1]) < 0 \/ HexVal(v[2]) < 0 THEN [ok |-> FALSE, bytes |-> <<>>]
    ELSE HexPairs(SubSeq(v, 3, Len(v)), Append(acc, HexVal(v[1]) * 16 + HexVal(v[2])))

\* hex::decode
HexDecode(v) == IF Len(v) % 2 = 1 THEN [ok |-> FALSE, bytes |-> <<>>] ELSE HexPairs(v, <<>>)

\* the config value the key is taken from, with the first value in its place
RootKeyValueFirst(values) == values[1]

\* key.values[1]
RootKeyValue(values) == values[2]

RootKeyLen == 12

RootResult(ret, key) == [ret |-> ret, key |-> key]

\* lines 259-261
RootLookup(base64_key, ents) ==
    IF base64_key \in DOMAIN ents THEN RootResult(Ok(0), base64_key)
    ELSE RootResult(Err("FileNotFound"), base64_key)

\* lines 255-256
RootEncode(base64, ents) ==
    IF Len(base64) < RootKeyLen THEN RootResult(Panic("byte index out of range"), <<>>)
    ELSE RootLookup(SubSeq(base64, 1, RootKeyLen), ents)

\* lines 252-253
RootDecode(hex_bytes, ents) ==
    IF ~hex_bytes.ok THEN RootResult(Err("InvalidData"), <<>>)
    ELSE RootEncode(Base64(hex_bytes.bytes), ents)

\* lines 248-261
RootKey(config, ents) ==
    IF ~config.present THEN RootResult(Err("Other"), <<>>)
    ELSE IF Len(config.values) < 2 THEN RootResult(Panic("index out of bounds"), <<>>)
    ELSE RootDecode(HexDecode(RootKeyValue(config.values)), ents)

\* the hex digits of Key9(2), and of the first eight bytes of Key9(1)
HexOfKey2 == <<"0","2","1","1","2","2","3","3","4","4","5","5","6","6","7","7","8","8">>

HexOfKey1Head == <<"0","1","1","1","2","2","3","3","4","4","5","5","6","6","7","7">>

MaxTail == 4

TailChars == {"8", "A", "g"}

RootValues ==
    {<<>>, <<HexOfKey2>>}
    \cup {<<HexOfKey2, HexOfKey1Head \o t>> : t \in SeqsUpTo(TailChars, MaxTail)}
    \cup {<<HexOfKey2, t>> : t \in SeqsUpTo(TailChars, 2)}
    \cup {<<HexOfKey2, HexOfKey1Head \o t, HexOfKey2>> : t \in SeqsUpTo(TailChars, 2)}

RootKeyInputs ==
    {BootIn("root_key", [config |-> c, entries |-> EntriesOf(StorageA)]) :
        c \in {[present |-> FALSE, values |-> <<>>]}
              \cup {[present |-> TRUE, values |-> v] : v \in RootValues}}

DoRootKey == BootStep("root_key", RootKey(boot.arg.config, boot.arg.entries))

(***************************************************************************)
(* TVFSRootHandler: the traversal of the path table.  A String is the      *)
(* sequence of its UTF-8 bytes ('\' is 92).  The handler h holds the three *)
(* tables, the position of the path-table cursor, the file entries, the    *)
(* outcome so far and (history) the value nodes met, in order.             *)
(***************************************************************************)
BackSlash == 92

\* PathTableNodeFlags and the fields of a PathTableNode; pos is the cursor
\* after the node
PathTableNode(pre, name, post, is_node_value, value, pos) ==
    [ret |-> Ok(0), PATH_SEPARATOR_PRE |-> pre, name |-> name,
     PATH_SEPARATOR_POST |-> post, IS_NODE_VALUE |-> is_node_value,
     value |-> value, pos |-> pos]

NodeErr(e) ==
    [ret |-> Err(e), PATH_SEPARATOR_PRE |-> FALSE, name |-> <<>>,
     PATH_SEPARATOR_POST |-> FALSE, IS_NODE_VALUE |-> FALSE, value |-> <<>>, pos |-> 0]

\* the length of the UTF-8 sequence a lead byte announces, 0 for no lead byte
CharLen(first) ==
    IF first <= 127 THEN 1
    ELSE IF first >= 192 /\ first <= 223 THEN 2
    ELSE IF first >= 224 /\ first <= 239 THEN 3
    ELSE IF first >= 240 /\ first <= 247 THEN 4
    ELSE 0

\* read_chars: `left` characters remain to be read; at the end of the table
\* the loop breaks with the characters read so far.  A multi-byte sequence
\* is kept when its continuation bytes are in 0x80..0xBF.
RECURSIVE ReadChars(_, _, _, _)
ReadChars(table, pos, left, chars) ==
    IF left = 0 \/ pos >= Len(table) THEN [ret |-> Ok(0), chars |-> chars, pos |-> pos]
    ELSE IF CharLen(table[pos + 1]) = 0
    THEN [ret |-> Err("InvalidData"), chars |-> chars, pos |-> pos]
    ELSE IF pos + CharLen(table[pos + 1]) > Len(table)
    THEN [ret |-> Err("UnexpectedEof"), chars |-> chars, pos |-> pos]
    ELSE IF \E i \in 2..CharLen(table[pos + 1]) :
               table[pos + i] < 128 \/ table[pos + i] > 191
    THEN [ret |-> Err("InvalidData"), chars |-> chars, pos |-> pos]
    ELSE ReadChars(table, pos + CharLen(table[pos + 1]), left - 1,
                   chars \o Slice(table, pos, CharLen(table[pos + 1])))

\* parse_path_node, lines 130-136: the value or the implied separator
NodeValue(table, pos, pre, name, post) ==
    IF table[pos + 1] = 255
    THEN IF pos + 5 > Len(table) THEN NodeErr("UnexpectedEof")
         ELSE PathTableNode(pre, name, post, TRUE, Slice(table, pos + 1, 4), pos + 5)
    ELSE PathTableNode(pre, name, TRUE, FALSE, <<>>, pos)

\* lines 124-128: the separator after the name
NodePost(table, pos, pre, name) ==
    IF pos >= Len(table) THEN NodeErr("UnexpectedEof")
    ELSE IF table[pos + 1] = 0
    THEN IF pos + 1 >= Len(table) THEN NodeErr("UnexpectedEof")
         ELSE NodeValue(table, pos + 1, pre, name, TRUE)
    ELSE NodeValue(table, pos, pre, name, FALSE)

NodeNameRead(table, pre, r) ==
    IF r.ret.kind # "Ok" THEN NodeErr(r.ret.err) ELSE NodePost(table, r.pos, pre, r.chars)

\* lines 117-122: the name
NodeName(table, pos, pre) ==
    IF table[pos + 1] < 127 /\ table[pos + 1] # 255
    THEN NodeNameRead(table, pre, ReadChars(table, pos + 1, table[pos + 1], <<>>))
    ELSE NodePost(table, pos, pre, <<>>)

\* parse_path_node
ParsePathNode(table, pos) ==
    IF pos >= Len(table) THEN NodeErr("UnexpectedEof")
    ELSE IF table[pos + 1] = 0
    THEN IF pos + 1 >= Len(table) THEN NodeErr("UnexpectedEof")
         ELSE NodeName(table, pos + 1, TRUE)
    ELSE NodeName(table, pos, FALSE)

\* read_variable_size_int: the number of bytes read
VarIntLen(data_size) ==
    IF data_size > 16777215 THEN 4
    ELSE IF data_size > 65535 THEN 3
    ELSE IF data_size > 255 THEN 2
    ELSE 1

RECURSIVE BEValue(_)
BEValue(bs) ==
    IF Len(bs) = 0 THEN 0 ELSE 256 * BEValue(SubSeq(bs, 1, Len(bs) - 1)) + bs[Len(bs)]

\* add_entry, the loop over the spans: the vfs cursor is at vpos
RECURSIVE AddEntrySpans(_, _, _, _, _)
AddEntrySpans(h, name, vpos, left, spans) ==
    IF left = 0
    THEN [h EXCEPT !.file_entries = MapInsert(@, name, [name |-> name, spans |-> spans]),
                   !.ev = Append(@, [kind |-> "added", name |-> name])]
    ELSE IF vpos + 8 + VarIntLen(Len(h.cft)) > Len(h.vfs) THEN [h EXCEPT !.ret = Err("Io")]
    ELSE IF BEValue(Slice(h.vfs, vpos + 8, VarIntLen(Len(h.cft)))) + h.encoding_key_size
              > Len(h.cft)
    THEN [h EXCEPT !.ret = Err("Io")]
    ELSE AddEntrySpans(h, name, vpos + 8 + VarIntLen(Len(h.cft)), left - 1,
             Append(spans,
                    SpanInfoNew(Slice(h.cft,
                                      BEValue(Slice(h.vfs, vpos + 8, VarIntLen(Len(h.cft)))),
                                      h.encoding_key_size))))

\* add_entry(name, vfs_info_pos)
AddEntry(h, name, vfs_info_pos) ==
    IF vfs_info_pos >= Len(h.vfs) THEN [h EXCEPT !.ret = Err("Io")]
    ELSE AddEntrySpans(h, name, vfs_info_pos + 1, h.vfs[vfs_info_pos + 1], <<>>)

\* what a node appends to the builder
Contribution(node) ==
    (IF node.PATH_SEPARATOR_PRE THEN <<BackSlash>> ELSE <<>>)
    \o node.name
    \o (IF node.PATH_SEPARATOR_POST THEN <<BackSlash>> ELSE <<>>)

\* val as u32 & 0x8000_0000, val & 0x7FFF_FFFF
IsFolder(value) == value[1] >= 128

FolderSize(value) == BEValue(<<value[1] % 128, value[2], value[3], value[4]>>)

\* builder.truncate(current_size), and a builder left as it is
TruncateNone(builder, current_size) == builder

Truncate(builder, current_size) == SubSeq(builder, 1, current_size)

\* the loop test of parse, and the test that stops one byte early
PositionBelowEndMinusOne(pos, end) == pos + 1 < end

PositionBelowEnd(pos, end) == pos < end

\* (history) the call in progress: the builder it was given, the nodes parsed
\* in it since the last value node, its nesting depth
Call(prefix, since, depth) == [prefix |-> prefix, since |-> since, depth |-> depth]

ValueEvent(kind, call, node, builder) ==
    [kind |-> kind, prefix |-> call.prefix, since |-> Append(call.since, node),
     depth |-> call.depth, path |-> builder]

\* the outcome of a call that does not return
NoReturn == [kind |-> "NoReturn", n |-> 0, err |-> ""]

\* parse(end, builder): ParseLoop is the head of the while loop
RECURSIVE ParseLoop(_, _, _, _, _)
RECURSIVE ParseAfterValue(_, _, _, _, _)
RECURSIVE ParseValue(_, _, _, _, _, _)
RECURSIVE ParseNode(_, _, _, _, _, _)

\* line 217: the builder is reset and the loop goes on
ParseAfterValue(h, end, current_size, builder, call) ==
    IF h.ret.kind # "Ok" THEN h
    ELSE ParseLoop([h EXCEPT !.ev = Append(@, [kind |-> "reset", prefix |-> call.prefix,
                                                depth |-> call.depth,
                                                builder |-> Truncate(builder, current_size)])],
                   end, current_size, Truncate(builder, current_size),
                   Call(call.prefix, <<>>, call.depth))

\* lines 206-218: builder already holds the node
ParseValue(h, end, current_size, builder, call, node) ==
    IF ~node.IS_NODE_VALUE
    THEN ParseLoop(h, end, current_size, builder,
                   Call(call.prefix, Append(call.since, node), call.depth))
    ELSE IF IsFolder(node.value)
    THEN ParseAfterValue(
             ParseLoop([h EXCEPT !.ev = Append(@, ValueEvent("folder", call, node, builder))],
                       h.pos + FolderSize(node.value) - 4, Len(builder), builder,
                       Call(builder, <<>>, call.depth + 1)),
             end, current_size, builder, call)
    ELSE ParseAfterValue(
             AddEntry([h EXCEPT !.ev = Append(@, ValueEvent("leaf", call, node, builder))],
                      builder, BEValue(node.value)),
             end, current_size, builder, call)

\* lines 192-204.  A node that is no value node and consumed no byte is parsed
\* again unchanged at every further iteration: the call does not return.
ParseNode(h, end, current_size, builder, call, node) ==
    IF node.ret.kind # "Ok" THEN [h EXCEPT !.ret = node.ret]
    ELSE IF ~node.IS_NODE_VALUE /\ node.pos = h.pos THEN [h EXCEPT !.ret = NoReturn]
    ELSE ParseValue([h EXCEPT !.pos = node.pos], end, current_size,
                    builder \o Contribution(node), call, node)

ParseLoop(h, end, current_size, builder, call) ==
    IF ~PositionBelowEnd(h.pos, end) THEN h
    ELSE ParseNode(h, end, current_size, builder, call, ParsePathNode(h.table, h.pos))

\* TVFSRootHandler::new, lines 91-103, on the three tables read from the
\* root file
TVFSRootHandlerNew(path_table_buf, vfs_table_buf, cft_table_buf, encoding_key_size) ==
    ParseLoop([table |-> path_table_buf, pos |-> 0, vfs |-> vfs_table_buf,
               cft |-> cft_table_buf, encoding_key_size |-> encoding_key_size,
               file_entries |-> <<>>, ev |-> <<>>, ret |-> Ok(0)],
              0 + Len(path_table_buf), 0, <<>>, Call(<<>>, <<>>, 0))

\* a vfs table with an entry of one span at 0 and one of two spans at 10, and
\* the cft table of their two keys
VfsTable == <<1, 0, 0, 0, 0, 0, 0, 0, 2, 0>>
            \o <<2, 0, 0, 0, 0, 0, 0, 0, 1, 0, 0, 0, 0, 1, 0, 0, 0, 1, 9>>

CftTable == Key9(1) \o Key9(2)

\* encodings of path-table nodes: leaves with and without leading separator,
\* a leaf whose vfs position is past the table, names without value, folders
\* of several declared sizes, a byte that starts no node
LeafNode(pre, c, vfs_info_pos) ==
    (IF pre THEN <<0>> ELSE <<>>) \o <<1, c, 255, 0, 0, 0, vfs_info_pos>>

FolderNode(c, folder_size) == <<0, 1, c, 255, 128, 0, 0, folder_size>>

FolderSizes == {4, 11, 12, 13, 20}

NodeBytes ==
    {LeafNode(TRUE, 97, 0), LeafNode(FALSE, 98, 10), LeafNode(FALSE, 104, 99),
     <<1, 99, 0>>, <<1, 100>>, <<128>>}
    \cup {FolderNode(102, sz) : sz \in FolderSizes}

MaxNodes == 3

\* \dir\file.txt: a folder "dir" holding the leaf "file.txt"
DirFileTable ==
    <<0, 3, 100, 105, 114, 255, 128, 0, 0, 19>>
    \o <<0, 8, 102, 105, 108, 101, 46, 116, 120, 116, 255, 0, 0, 0, 0>>

PathTables ==
    {DirFileTable} \cup {Flatten(ns) : ns \in SeqsUpTo(NodeBytes, MaxNodes)}

TvfsInputs ==
    {BootIn("tvfs", [path_table |-> t, vfs_table |-> VfsTable, cft_table |-> CftTable,
                     encoding_key_size |-> 9]) : t \in PathTables}

DoTvfs ==
    BootStep("tvfs",
             TVFSRootHandlerNew(boot.arg.path_table, boot.arg.vfs_table, boot.arg.cft_table,
                                boot.arg.encoding_key_size))

BootInputs == LoadFilesInputs \cup IdxInputs \cup RootKeyInputs \cup TvfsInputs

InitOpen == InitStorage(StorageA) /\ NoCallers /\ boot \in BootInputs

NextOpen ==
    \/ DoLoadFiles
    \/ DoIdx
    \/ DoRootKey
    \/ DoTvfs

SpecOpen == InitOpen /\ [][NextOpen]_vars

(***************************************************************************)
(* C11.  load_files gives one record per TVFS file entry: when every span  *)
(* of the entry has an IDX record the file is local and its size is the    *)
(* sum of the size fields of those records; when some span has none, at    *)
(* whatever place, the file is not local and its size is 0.  A record      *)
(* depends on its own entry only, and load_files does not fail.            *)
(***************************************************************************)
HasIdxEntry(ents, e_key) == \E k \in DOMAIN ents : ents[k].encoding_key = e_key

IdxSizeOf(ents, e_key) ==
    LET k == CHOOSE k \in DOMAIN ents : ents[k].encoding_key = e_key IN ents[k].size

C11_LoadFilesRecords ==
    (boot.job = "load_files" /\ boot.pc = "out") =>
        LET fes == boot.arg.file_entries
            ents == boot.arg.entries
        IN  /\ boot.res.ret.kind = "Ok"
            /\ DOMAIN boot.res.files = DOMAIN fes
            /\ \A n \in DOMAIN fes :
                  LET sp == fes[n].spans
                      info == boot.res.files[n]
                  IN  /\ info.file_name = n
                      /\ IF \A i \in 1..Len(sp) : HasIdxEntry(ents, sp[i].encoding_key)
                         THEN /\ info.is_local
                              /\ info.file_size =
                                   SumSeq([i \in 1..Len(sp) |->
                                              IdxSizeOf(ents, sp[i].encoding_key)])
                         ELSE /\ ~info.is_local
                              /\ info.file_size = 0

\* a file whose last span alone is missing, next to a file that is local
C11_Witness ==
    /\ boot.job = "load_files" /\ boot.pc = "out"
    /\ Len(boot.arg.file_entries["x"].spans) = 3
    /\ boot.arg.file_entries["x"].spans[1].encoding_key = Key9(1)
    /\ boot.arg.file_entries["x"].spans[3].encoding_key = Key9(9)
    /\ boot.res.files["x"] = [file_name |-> "x", file_size |-> 0, is_local |-> FALSE]
    /\ boot.res.files["y"].is_local /\ boot.res.files["y"].file_size > 0

(***************************************************************************)
(* C14.  CascKeyMappingTable::new fails with the corrupted error, leaving  *)
(* the shared map as it was, whenever one of the three length fields       *)
(* differs from (4, 5, 9); it accepts a table only when all three match.   *)
(***************************************************************************)
IdxLengthsOf(file) == <<file[13], file[14], file[15]>>

C14_IdxLengthsValidated ==
    (boot.job = "idx" /\ boot.pc = "out") =>
        /\ IdxLengthsOf(boot.arg.file) # <<4, 5, 9>> =>
              /\ boot.res.ret = Err("FileCorrupted")
              /\ boot.res.entries = boot.arg.entries
        /\ boot.res.ret.kind = "Ok" => IdxLengthsOf(boot.arg.file) = <<4, 5, 9>>

(***************************************************************************)
(* C15.  An 18-byte record decodes, for every file_offset_bits in 0..40,   *)
(* to encoding_key = bytes 0..9, size = the little-endian u32 of bytes     *)
(* 14..18, archive_index = P >> file_offset_bits and offset = the low      *)
(* file_offset_bits bits of P, P being the 40-bit big-endian integer of    *)
(* bytes 9..14, so that (archive_index << file_offset_bits) | offset = P.  *)
(***************************************************************************)
\* the u64 whose low bits are the given ones
U64OfBits(bits) == FromBits([i \in 1..(64 - Len(bits)) |-> 0] \o bits)

C15_IdxRecordDecoded ==
    (/\ boot.job = "idx" /\ boot.pc = "out"
     /\ IdxLengthsOf(boot.arg.file) = <<4, 5, 9>>
     /\ boot.arg.nrecords = 1
     /\ boot.arg.file[16] <= 40) =>
        LET rec == Slice(boot.arg.file, 40, 18)
            n == boot.arg.file[16]
            P == ToBits(Slice(rec, 9, 5))
            k == Base64(Slice(rec, 0, 9))
        IN  /\ boot.res.ret.kind = "Ok"
            /\ DOMAIN boot.res.entries = {k}
            /\ boot.res.entries[k].encoding_key = Slice(rec, 0, 9)
            /\ boot.res.entries[k].size = <<rec[18], rec[17], rec[16], rec[15]>>
            /\ Zeros(4) \o boot.res.entries[k].archive_index = U64OfBits(SubSeq(P, 1, 40 - n))
            /\ boot.res.entries[k].offset = U64OfBits(SubSeq(P, 41 - n, 40))
            /\ U64Or(U64Shl(Zeros(4) \o boot.res.entries[k].archive_index, n),
                     boot.res.entries[k].offset) = U64OfBits(P)

(***************************************************************************)
(* C19.  The root file is looked up under the IDX key made from the second *)
(* value of the vfs-root entry: the value is hex-decoded, the bytes are    *)
(* base64-encoded and the first 12 characters are the key.  A second value *)
(* that is not valid hexadecimal makes open fail with invalid data.        *)
(***************************************************************************)
HexDigits == {"0", "1", "2", "3", "4", "5", "6", "7", "8", "9",
              "a", "b", "c", "d", "e", "f", "A", "B", "C", "D", "E", "F"}

ValidHex(v) == Len(v) % 2 = 0 /\ \A i \in 1..Len(v) : v[i] \in HexDigits

BytesOfHex(v) == [i \in 1..(Len(v) \div 2) |-> 16 * HexVal(v[2 * i - 1]) + HexVal(v[2 * i])]

C19_RootKeyDerivation ==
    (/\ boot.job = "root_key" /\ boot.pc = "out"
     /\ boot.arg.config.present /\ Len(boot.arg.config.values) >= 2) =>
        LET v == boot.arg.config.values[2]
        IN  IF ~ValidHex(v) THEN boot.res.ret = Err("InvalidData")
            ELSE Len(Base64(BytesOfHex(v))) >= 12 =>
                   /\ boot.res.key = SubSeq(Base64(BytesOfHex(v)), 1, 12)
                   /\ IF boot.res.key \in DOMAIN boot.arg.entries
                      THEN boot.res.ret = Ok(0)
                      ELSE boot.res.ret = Err("FileNotFound")

\* a ten-byte value whose first nine bytes are the key of an IDX record
C19_Witness ==
    /\ boot.job = "root_key" /\ boot.pc = "out"
    /\ Len(boot.arg.config.values) = 2
    /\ boot.arg.config.values[2] = HexOfKey1Head \o <<"8", "8", "A", "8">>
    /\ boot.res.ret = Ok(0)
    /\ boot.arg.entries[boot.res.key].encoding_key = Key9(1)

(***************************************************************************)
(* C17.  Within one parse(end, prefix) call the path of a value node is    *)
(* the prefix followed by the contributions ('\' if PATH_SEPARATOR_PRE,    *)
(* the name, '\' if PATH_SEPARATOR_POST) of the nodes parsed in that call  *)
(* since the previous value node, the value node included; a leaf is       *)
(* entered under that path; the call a folder node starts has the folder's *)
(* path as its prefix; after every value node the working path is the      *)
(* prefix again.  The folder "dir" followed by the leaf "file.txt", both   *)
(* with a leading separator, give the one key \dir\file.txt.               *)
(***************************************************************************)
PathOfNodes(prefix, nodes) ==
    prefix \o Flatten([i \in 1..Len(nodes) |->
                         (IF nodes[i].PATH_SEPARATOR_PRE THEN <<92>> ELSE <<>>)
                         \o nodes[i].name
                         \o (IF nodes[i].PATH_SEPARATOR_POST THEN <<92>> ELSE <<>>)])

DirFileKey == <<92, 100, 105, 114, 92, 102, 105, 108, 101, 46, 116, 120, 116>>

C17_PathReconstruction ==
    (boot.job = "tvfs" /\ boot.pc = "out") =>
        LET ev == boot.res.ev
        IN  /\ \A i \in 1..Len(ev) :
                  /\ ev[i].kind \in {"leaf", "folder"} =>
                        ev[i].path = PathOfNodes(ev[i].prefix, ev[i].since)
                  /\ ev[i].kind = "reset" => ev[i].builder = ev[i].prefix
                  /\ (ev[i].kind = "folder" /\ i < Len(ev)
                        /\ ev[i + 1].kind \in {"leaf", "folder"}
                        /\ ev[i + 1].depth = ev[i].depth + 1) =>
                        ev[i + 1].prefix = ev[i].path
                  /\ ev[i].kind = "added" =>
                        /\ ev[i - 1].kind = "leaf" /\ ev[i - 1].path = ev[i].name
                        /\ ev[i].name \in DOMAIN boot.res.file_entries
            /\ DOMAIN boot.res.file_entries =
                  {ev[i].name : i \in {j \in 1..Len(ev) : ev[j].kind = "added"}}
            /\ boot.arg.path_table = DirFileTable =>
                  /\ boot.res.ret = Ok(0)
                  /\ DOMAIN boot.res.file_entries = {DirFileKey}

\* a folder holding one leaf, followed by a leaf of the
\* enclosing call
C17_Witness ==
    /\ boot.job = "tvfs" /\ boot.pc = "out" /\ boot.res.ret = Ok(0)
    /\ boot.arg.path_table =
          FolderNode(102, 12) \o LeafNode(TRUE, 97, 0) \o LeafNode(FALSE, 98, 10)
    /\ DOMAIN boot.res.file_entries = {<<92, 102, 92, 97>>, <<98>>}

(***************************************************************************)
(* C18.  Whenever TVFSRootHandler::new succeeds the path-table cursor      *)
(* stands at the end of the path table, also when the declared size of a   *)
(* folder ends the nested call before or after the bytes of its children.  *)
(***************************************************************************)
C18_CursorAtTableEnd ==
    (boot.job = "tvfs" /\ boot.pc = "out" /\ boot.res.ret.kind = "Ok") =>
        boot.res.pos = Len(boot.arg.path_table)

\* a folder that declares 11 bytes before a leaf of 8, and one that declares
\* 13 bytes before leaves of 8 and 7
C18_Witness ==
    /\ boot.job = "tvfs" /\ boot.pc = "out" /\ boot.res.ret = Ok(0)
    /\ boot.arg.path_table \in
          {FolderNode(102, 11) \o LeafNode(TRUE, 97, 0),
           FolderNode(102, 13) \o LeafNode(TRUE, 97, 0) \o LeafNode(FALSE, 98, 10)}
    /\ boot.res.pos = Len(boot.arg.path_table)
    /\ \E i \in 1..Len(boot.res.ev) : boot.res.ev[i].kind = "leaf" /\ boot.res.ev[i].depth = 1

(***************************************************************************)
(* C24.  TVFSRootHandler::new returns, with a handler or with an error, on *)
(* every content of the path table: every parse_path_node call that        *)
(* succeeds moves the cursor forward, whatever byte is under it.           *)
(***************************************************************************)
C24_PathTableParseReturns ==
    (boot.job = "tvfs" /\ boot.pc = "out") => boot.res.ret.kind \in {"Ok", "Err"}

(***************************************************************************)
(* C28.  From an accepted IDX file the parser reads and inserts exactly    *)
(* floor(table_size / 18) records: no trailing partial record is read and  *)
(* none is read when table_size < 18.                                      *)
(***************************************************************************)
C28_IdxRecordCount ==
    (/\ boot.job = "idx" /\ boot.pc = "out"
     /\ IdxLengthsOf(boot.arg.file) = <<4, 5, 9>>
     /\ boot.arg.file[16] = 30
     /\ Len(boot.arg.file) >= 40 + 18 * (LE32(boot.arg.file, 32) \div 18)) =>
        /\ boot.res.ret = Ok(0)
        /\ Cardinality(DOMAIN boot.res.entries) = LE32(boot.arg.file, 32) \div 18

(***************************************************************************)
(* C30.  A vfs-root entry with fewer than two values, or whose second      *)
(* value decodes to bytes whose base64 text is shorter than 12 characters, *)
(* makes open return an error: the value list is not indexed and the key   *)
(* is not sliced out of range.                                             *)
(***************************************************************************)
C30_MalformedRootEntryIsError ==
    (/\ boot.job = "root_key" /\ boot.pc = "out" /\ boot.arg.config.present
     /\ \/ Len(boot.arg.config.values) < 2
        \/ /\ ValidHex(boot.arg.config.values[2])
           /\ Len(Base64(BytesOfHex(boot.arg.config.values[2]))) < 12) =>
        boot.res.ret.kind = "Err"

(***************************************************************************)
(* C29.  At the archive offset o of an IDX entry open_file skips the span  *)
(* header, tests the BLTE signature on the four bytes that follow and      *)
(* fails with invalid data when they differ; frame k's archive_offset is   *)
(* the position just after the block table plus the encoded_size of the    *)
(* frames before it.  The span header is the 30 bytes of CascSpanHeader:   *)
(* the signature is at o+30..o+34.                                         *)
(***************************************************************************)
\* the IDX entries of the spans of a file that have one, in span order
ResolvedEntries(name) ==
    LET sp == file_entries[name].spans
        F[i \in 0..Len(sp)] ==
            IF i = 0 THEN <<>>
            ELSE IF sp[i].base64_encoding_key \in DOMAIN entries
                 THEN Append(F[i - 1], entries[sp[i].base64_encoding_key])
                 ELSE F[i - 1]
    IN  F[Len(sp)]

ArchiveOf(e) == FsContent[data_file_paths[e.archive_index + 1]]

\* the layout of the spans of the stream of slot s when the span header
\* takes hdr bytes
SpanLayout(s, hdr) ==
    LET R == ResolvedEntries(hist[s].name)
        st == streams[s]
    IN  /\ Len(st.spans) = Len(R)
        /\ \A i \in 1..Len(R) :
              LET fr == st.spans[i].frames
                  tbl_end == R[i].offset + hdr + BlockTableHeaderSize
                                 + BlockTableEntrySize * Len(fr)
              IN  /\ Len(fr) = FrameCount(ArchiveOf(R[i]), R[i].offset + hdr + 9)
                  /\ st.spans[i].archive_offset = tbl_end
                  /\ \A k \in 1..Len(fr) :
                        fr[k].archive_offset =
                            tbl_end + SumSeq([j \in 1..(k - 1) |-> fr[j].encoded_size])

\* the outcome of the open_file call of slot s when the span header takes
\* hdr bytes
SpanHeaderTakes(s, hdr) ==
    (/\ hist[s].op = "open" /\ hist[s].name \in DOMAIN file_entries
     /\ \A i \in 1..Len(ResolvedEntries(hist[s].name)) :
           ResolvedEntries(hist[s].name)[i].archive_index < Len(data_file_paths)) =>
        LET R == ResolvedEntries(hist[s].name)
            bad == {i \in 1..Len(R) :
                       Slice(ArchiveOf(R[i]), R[i].offset + hdr, 4) # BlteMagic}
        IN  IF bad # {} THEN hist[s].ret = Err("InvalidData")
            ELSE hist[s].ret.kind = "Ok" /\ SpanLayout(s, hdr)

Covers(x, p) == x.virtual_start_offset <= p /\ p < x.virtual_end_offset

C21_FramesTileTheStream ==
    \A s \in Slots :
        LET st == streams[s]
            fr == StreamFrames(st)
        IN  st.live =>
              /\ Len(fr) > 0 => fr[1].virtual_start_offset = 0
              /\ \A k \in 1..Len(fr) :
                    /\ fr[k].virtual_end_offset = fr[k].virtual_start_offset + fr[k].content_size
                    /\ k > 1 => fr[k].virtual_start_offset = fr[k - 1].virtual_end_offset
              /\ st.internal_size = (IF Len(fr) = 0 THEN 0 ELSE fr[Len(fr)].virtual_end_offset)
              /\ \A i \in 1..Len(st.spans) :
                    LET sp == st.spans[i]
                    IN  /\ sp.virtual_start_offset <= sp.virtual_end_offset
                        /\ \A p \in 0..st.internal_size :
                              Covers(sp, p) <=>
                                 \E k \in 1..Len(sp.frames) : Covers(sp.frames[k], p)
                        /\ Len(sp.frames) > 0 =>
                              /\ sp.virtual_start_offset = sp.frames[1].virtual_start_offset
                              /\ sp.virtual_end_offset =
                                    sp.frames[Len(sp.frames)].virtual_end_offset
              /\ \A p \in 0..(st.internal_size - 1) :
                    /\ Cardinality({i \in 1..Len(st.spans) : Covers(st.spans[i], p)}) = 1
                    /\ Cardinality({k \in 1..Len(fr) : Covers(fr[k], p)}) = 1

\* a stream of two spans with a frame of content_size 0
C21_Witness ==
    /\ streams[1].live /\ Len(streams[1].spans) = 2
    /\ streams[1].spans[2].virtual_start_offset > 0
    /\ \E k \in 1..Len(StreamFrames(streams[1])) :
          StreamFrames(streams[1])[k].content_size = 0
    /\ streams[1].internal_size = 5

\* a stream whose only span follows a span skipped for lack of an IDX entry
C21_SkippedSpanReached ==
    /\ streams[1].live /\ Len(streams[1].spans) = 1
    /\ Len(file_entries[streams[1].name].spans) = 2
    /\ file_entries[streams[1].name].spans[1].base64_encoding_key \notin DOMAIN entries
    /\ streams[1].spans[1].virtual_start_offset = 0
    /\ streams[1].internal_size = 1

(***************************************************************************)
(* C26.  seek changes the logical position and nothing else: no reader of  *)
(* an archive moves, the cache and its bounds, the spans and frames and    *)
(* the size stay as they are; it returns the new position, which for Start *)
(* is the offset given; a seek past the size is accepted and the read that *)
(* follows returns 0.                                                      *)
(***************************************************************************)
C26_SeekMovesPositionOnly ==
    [][\A s \in Slots :
          /\ (hist'[s].op = "seek" /\ <<hist[s], streams[s]>> # <<hist'[s], streams'[s]>>) =>
                /\ hist'[s].ret = Ok(streams'[s].internal_position)
                /\ hist'[s].whence = "Start" => hist'[s].ret = Ok(hist'[s].arg)
                /\ streams'[s] =
                      [streams[s] EXCEPT !.internal_position = streams'[s].internal_position]
                /\ cursors' = cursors
                /\ UNCHANGED storageVars
          /\ (/\ hist[s].op = "seek" /\ hist[s].whence = "Start"
              /\ hist[s].arg > streams[s].internal_size
              /\ hist'[s].op = "read") =>
                /\ hist'[s].ret = Ok(0)
                /\ streams'[s] = streams[s]
                /\ cursors' = cursors]_vars

\* a seek past the size on a stream that holds a decoded frame
C26_Witness ==
    /\ streams[1].live /\ streams[1].has_cache /\ Len(streams[1].cache) > 0
    /\ hist[1].op = "seek" /\ hist[1].whence = "Start"
    /\ hist[1].arg > streams[1].internal_size
    /\ hist[1].ret = Ok(hist[1].arg)
    /\ streams[1].internal_position = hist[1].arg

(***************************************************************************)
(* C27.  A read that decodes a frame tagged ZLib installs a cache of       *)
(* exactly content_size bytes: a payload that inflates to more or fewer    *)
(* bytes, and an encoded_size of 0, make the read fail with an error; the  *)
(* read neither serves data of the wrong length nor aborts.                *)
(***************************************************************************)
\* the frames of a stream whose range is the range of the cache, as
\* <<span, frame>> indices
CachedFrames(st) ==
    {ik \in UNION {{<<i, k>> : k \in 1..Len(st.spans[i].frames)} : i \in 1..Len(st.spans)} :
        /\ st.spans[ik[1]].frames[ik[2]].content_size > 0
        /\ st.spans[ik[1]].frames[ik[2]].virtual_start_offset = st.cache_start_position
        /\ st.spans[ik[1]].frames[ik[2]].virtual_end_offset = st.cache_end_position}

C27_ZLibCacheHasContentSize ==
    \A s \in Slots :
        LET st == streams[s]
        IN  (st.live /\ hist[s].op = "read") =>
              /\ hist[s].ret.kind # "Panic"
              /\ (hist[s].ret.kind = "Ok" /\ st.has_cache) =>
                    \A ik \in CachedFrames(st) :
                        TagOf(st, ik[1], ik[2]) = TAG_ZLIB =>
                            Len(st.cache) = st.spans[ik[1]].frames[ik[2]].content_size

(***************************************************************************)
(* C22.  In every reachable state of a stream, also after reads that       *)
(* returned an error, a populated cache holds the decoded content of the   *)
(* frame whose virtual range is [cache_start, cache_end) and has           *)
(* cache_end - cache_start bytes.                                          *)
(***************************************************************************)
\* the content of frame k of span i of a stream, decoded from the bytes of
\* its archive; ok is FALSE when the frame has no decoded content
DecodedFrame(st, i, k) ==
    LET f == st.spans[i].frames[k]
        file == FsContent[cursors[st.spans[i].span_reader].path]
    IN  IF TagOf(st, i, k) = TAG_RAW
        THEN [ok |-> TRUE, data |-> Slice(file, f.archive_offset + 1, f.content_size)]
        ELSE IF TagOf(st, i, k) = TAG_ZLIB /\ f.encoded_size > 0
        THEN Inflate(Slice(file, f.archive_offset + 1, f.encoded_size - 1))
        ELSE [ok |-> FALSE, data |-> <<>>]

C22_CacheIsItsFrame ==
    \A s \in Slots :
        LET st == streams[s]
        IN  (st.live /\ st.has_cache) =>
              /\ Len(st.cache) = st.cache_end_position - st.cache_start_position
              /\ \A ik \in CachedFrames(st) :
                    /\ DecodedFrame(st, ik[1], ik[2]).ok
                    /\ st.cache = DecodedFrame(st, ik[1], ik[2]).data

(***************************************************************************)
(* C23.  A read that returns an error leaves the stream position where it  *)
(* was before the call.                                                    *)
(***************************************************************************)
C23_FailedReadKeepsPosition ==
    \A s \in Slots :
        (streams[s].live /\ hist[s].op = "read" /\ hist[s].ret.kind = "Err") =>
            streams[s].internal_position = hist[s].prev

(***************************************************************************)
(* C25.  Single-frame cache policy.  In every read call, a turn of the     *)
(* loop begins the archive read of a frame exactly when the byte it needs  *)
(* lies outside [cache_start_position, cache_end_position) or there is no  *)
(* cache, and otherwise copies at least one byte out of the cache; a call  *)
(* that begins no archive read of a frame leaves every file description    *)
(* where it was; and in a seek-free run of reads from position 0, with any *)
(* buffer sizes, whose reads all returned Ok, the frames decoded so far    *)
(* are the frames of non-zero content_size that start below the position,  *)
(* each once and in frame order: at the end of the stream, every one of    *)
(* them.                                                                   *)
(***************************************************************************)
\* the byte at `at` is not in the cache the turn found
OutsideCache(e) == ~e.has \/ e.at < e.lo \/ e.at >= e.hi

C25_TurnFollowsPolicy ==
    \A s \in Slots :
        hist[s].op = "read" =>
            \A k \in 1..Len(hist[s].events) :
                LET e == hist[s].events[k]
                IN  /\ (e.kind = "decode") <=> OutsideCache(e)
                    /\ (e.kind = "serve") => e.n > 0

\* the virtual start of every frame of non-zero content_size, in frame order
NonEmptyFrameStarts(st) ==
    LET fr == SelectSeq(StreamFrames(st), LAMBDA f : f.content_size # 0)
    IN  [k \in 1..Len(fr) |-> fr[k].virtual_start_offset]

C25_OneDecodePerFrame ==
    \A s \in Slots :
        (streams[s].live /\ run[s].pure /\ run[s].ok) =>
            run[s].decodes = SelectSeq(NonEmptyFrameStarts(streams[s]),
                                       LAMBDA v : v < streams[s].internal_position)

C25_CachedReadDoesNoIo ==
    \A s \in Slots :
        (hist'[s] # hist[s] /\ hist'[s].op = "read"
            /\ DecodedFrames(hist'[s].events) = <<>>) => cursors' = cursors

C25_SingleFrameCachePolicy ==
    /\ [](C25_TurnFollowsPolicy /\ C25_OneDecodePerFrame)
    /\ [][C25_CachedReadDoesNoIo]_vars

\* a seek-free run of reads has reached the end of a stream of three non-empty
\* frames, and its last read was served from the cache alone
C25_Witness ==
    \E s \in Slots :
        /\ streams[s].live /\ run[s].pure /\ run[s].ok
        /\ streams[s].internal_position = streams[s].internal_size
        /\ Len(run[s].decodes) = 3
        /\ Len(StreamFrames(streams[s])) > 3
        /\ hist[s].op = "read"
        /\ hist[s].events # <<>>
        /\ \A k \in 1..Len(hist[s].events) : hist[s].events[k].kind = "serve"

====
